---------------------------- MODULE Spec2Model ----------------------------
(***************************************************************************)
(* A model of the tick-driven simulation core of masalyuk/kekita:          *)
(* SpatialIndex, Combat, HybridDecisionMaker, LLMResponseParser, World,    *)
(* Environment, StageManager and Simulation.step.                          *)
(*                                                                         *)
(* Conventions                                                             *)
(*  - player_id None is the integer 0 (NoPlayer); a missing target_id is   *)
(*    0 (NoTarget): the code tests "if target_id:", so None and 0 agree.   *)
(*  - distances are kept squared (d2): every comparison the code makes on  *)
(*    sqrt(d2) against 1, 1.5 or 2 is an integer comparison on d2.         *)
(*  - a creature's speed is kept doubled (speed2 = 2 * speed) because       *)
(*    Organism._apply_part_bonuses adds multiples of 0.5.                  *)
(***************************************************************************)
EXTENDS Integers, Sequences, FiniteSets, TLC

VARIABLES
    ix,     \* SpatialIndex under test: [grid, next, q, out, done]
    cb,     \* Combat under test: [att, def, raw, final, done, before, att0,
            \* gained]
    world,  \* World: [cells, food, grid, rid, turn, width, height, cfg,
            \*         territories, predator_actions]
    env,    \* Environment: [weather, turn_counter, weather_change_turn,
            \*               disaster_timer, active_disasters, predators]
    step,   \* Simulation.step in progress: [pc, actions, critical, normal,
            \*   i, j, batch_actions, k, left]
    llm,    \* the inference service: [calls in flight, texts it answers with,
            \* merge: the trait merge of an update_prompts request]
    game,   \* game_state[game_id] and the event loop around it: [status,
            \*   attempt_number, current_stage, total_attempts, restarts,
            \*   prompts]
    obs     \* history kept for the properties (not program state)

vars == <<ix, cb, world, env, step, llm, game, obs>>

---------------------------------------------------------------------------
(* Arithmetic helpers *)

Min(a, b) == IF a <= b THEN a ELSE b
Max(a, b) == IF a >= b THEN a ELSE b
Abs(a) == IF a < 0 THEN -a ELSE a
Dist2(x1, y1, x2, y2) == (x1 - x2) * (x1 - x2) + (y1 - y2) * (y1 - y2)

NoPlayer == 0
NoTarget == 0

---------------------------------------------------------------------------
(* SpatialIndex (spatial_index.py) *)

cell_size == 5

\* _get_grid_coords: Python // is floor division, as \div is.
GetGridCoords(x, y) == <<x \div cell_size, y \div cell_size>>

\* add_object: append the entry to its bucket's list (a defaultdict).
AddObject(grid, obj_id, x, y, obj_type) ==
    LET key == GetGridCoords(x, y)
        e == [id |-> obj_id, x |-> x, y |-> y, type |-> obj_type]
    IN IF key \in DOMAIN grid
       THEN [grid EXCEPT ![key] = Append(@, e)]
       ELSE (key :> <<e>>) @@ grid

\* remove_object: drop every entry with that id from the bucket of (x, y).
RemoveObject(grid, obj_id, x, y) ==
    LET key == GetGridCoords(x, y)
        Keep(e) == e.id # obj_id
    IN IF key \in DOMAIN grid
       THEN [grid EXCEPT ![key] = SelectSeq(@, Keep)]
       ELSE grid

\* radius_cells = (radius + cell_size - 1) // cell_size
RadiusCellsFloor(radius) == radius \div cell_size
RadiusCells(radius) == (radius + cell_size - 1) \div cell_size

\* The entries of one bucket that pass the type filter and the exact
\* distance test, each with its squared distance. obj_type "any" is None.
BucketHits(grid, key, x, y, radius, obj_type) ==
    IF key \notin DOMAIN grid THEN <<>>
    ELSE LET Hit(e) == /\ (obj_type = "any" \/ e.type = obj_type)
                       /\ Dist2(e.x, e.y, x, y) <= radius * radius
             hits == SelectSeq(grid[key], Hit)
         IN [i \in 1..Len(hits) |->
                [id |-> hits[i].id, x |-> hits[i].x, y |-> hits[i].y,
                 type |-> hits[i].type,
                 d2 |-> Dist2(hits[i].x, hits[i].y, x, y)]]

\* get_nearby: the buckets dx, dy in -rc..rc around the centre bucket, in
\* the order of the two nested range() loops.
RECURSIVE NearbyFrom(_, _, _, _, _, _, _)
NearbyFrom(grid, x, y, radius, obj_type, rc, n) ==
    LET side == 2 * rc + 1
        c == GetGridCoords(x, y)
        key == <<c[1] - rc + ((n - 1) \div side), c[2] - rc + ((n - 1) % side)>>
    IN IF n > side * side THEN <<>>
       ELSE BucketHits(grid, key, x, y, radius, obj_type)
            \o NearbyFrom(grid, x, y, radius, obj_type, rc, n + 1)

GetNearbyIndex(grid, x, y, radius, obj_type) ==
    NearbyFrom(grid, x, y, radius, obj_type, RadiusCells(radius), 1)

\* clear() then add every living creature, then every food item.
RECURSIVE AddAll(_, _, _)
AddAll(grid, objs, n) ==
    IF n > Len(objs) THEN grid
    ELSE AddAll(AddObject(grid, objs[n].id, objs[n].x, objs[n].y, objs[n].type),
                objs, n + 1)

EmptyGrid == [k \in {} |-> <<>>]

\* Every entry of the index, whatever its bucket.
IndexEntries(grid) ==
    UNION {{grid[k][i] : i \in 1..Len(grid[k])} : k \in DOMAIN grid}

SeqIds(s) == {s[i].id : i \in 1..Len(s)}

IdxIdle ==
    [grid |-> EmptyGrid, next |-> 1, q |-> <<0, 0, 0, "any">>, out |-> <<>>,
     done |-> FALSE]
CbIdle ==
    [att |-> 0, def |-> 0, raw |-> 0, final |-> 0, done |-> FALSE, before |-> 0,
     att0 |-> 0, gained |-> 0]

---------------------------------------------------------------------------
(* Creatures (creature.py, cell.py, multicellular.py, organism.py) *)

MaxEnergy == 100
Diets == {"herbivore", "carnivore", "omnivore"}

\* The traits dict: color, speed, diet and the optional genetic_variation
\* (speed modifier in percent, varied colour, +10% strength).
Traits(color, speed, diet, variation) ==
    [color |-> color, speed |-> speed, diet |-> diet, variation |-> variation]
NoVariation == [has_speed |-> FALSE, speed |-> 0, color |-> FALSE, strength |-> FALSE]

\* A creature object as its constructor leaves it. cls is its Python class:
\* only a Multicellular has a colony attribute (a new colony of its own,
\* named by its id) and only an Organism has parts. An Organism's speed is
\* min(5, speed + (limbs - 3) * 0.5).
NoParts == [mouth |-> "none", limbs |-> 3, sensors |-> 0, defense |-> "none"]
NewCreatureInOneColony(cls, creature_id, traits, x, y, player_id, parts) ==
    [id |-> creature_id, player_id |-> player_id, x |-> x, y |-> y,
     energy |-> MaxEnergy, age |-> 0, alive |-> TRUE,
     stage |-> CASE cls = "Cell" -> 1 [] cls = "Multicellular" -> 2 [] OTHER -> 3,
     cls |-> cls,
     speed2 |-> IF cls = "Organism"
                THEN Min(10, 2 * traits.speed + (parts.limbs - 3))
                ELSE 2 * traits.speed,
     diet |-> traits.diet, color |-> traits.color, traits |-> traits,
     parts |-> parts,
     colony |-> IF cls = "Multicellular" THEN 1 ELSE 0]
NewCreature(cls, creature_id, traits, x, y, player_id, parts) ==
    [id |-> creature_id, player_id |-> player_id, x |-> x, y |-> y,
     energy |-> MaxEnergy, age |-> 0, alive |-> TRUE,
     stage |-> CASE cls = "Cell" -> 1 [] cls = "Multicellular" -> 2 [] OTHER -> 3,
     cls |-> cls,
     speed2 |-> IF cls = "Organism"
                THEN Min(10, 2 * traits.speed + (parts.limbs - 3))
                ELSE 2 * traits.speed,
     diet |-> traits.diet, color |-> traits.color, traits |-> traits,
     parts |-> parts,
     colony |-> IF cls = "Multicellular" THEN creature_id ELSE 0]

HasParts(c) == c.cls = "Organism"

---------------------------------------------------------------------------
(* Combat (combat.py) *)

attack_cost == 3
attack_min_energy == 50

\* trait_bonus in tenths: carnivore 1.3, else stage-3 sharp mouth 1.2.
TraitBonus10(attacker) ==
    IF attacker.diet = "carnivore" THEN 13
    ELSE IF attacker.stage = 3 /\ HasParts(attacker) /\ attacker.parts.mouth = "sharp"
         THEN 12 ELSE 10

\* int(base * stage_multiplier * trait_bonus * speed_bonus), floored at 1.
\* The three factors are tenths, tenths and twentieths (speed_bonus =
\* 1 + (speed - 3) * 0.1 = (20 + speed2 - 6) / 20); the float product and
\* the exact product have the same integer part for every energy 0..100,
\* stage 1..3 and speed 0.5..5.
RawDamage(attacker) ==
    LET base_damage == 10 + (attacker.energy \div 10) + attacker.stage * 5
        stage10 == 10 + (attacker.stage - 1) * 2
        speed20 == 20 + (attacker.speed2 - 6)
    IN (base_damage * stage10 * TraitBonus10(attacker) * speed20) \div 2000

CalculateDamage(attacker, defender) == Max(1, RawDamage(attacker))

\* defense_value in tenths.
DefenseValue10(defender) ==
    IF defender.stage = 3 /\ HasParts(defender)
    THEN CASE defender.parts.defense = "armor" -> 5
           [] defender.parts.defense = "spikes" -> 3
           [] defender.parts.defense = "camouflage" -> 2
           [] OTHER -> 0
    ELSE 0

\* int(damage * (1.0 - defense_value)), floored at 1 (exact for damage < 90).
ApplyDefenseUnscaled(damage, defender) ==
    damage * (1 - DefenseValue10(defender))
ApplyDefense(damage, defender) ==
    Max(1, (damage * (10 - DefenseValue10(defender))) \div 10)

\* resolve_combat: the two creatures afterwards, and what the call returns.
\* The predation gain reads defender.energy after it was set to 0.
ResolveCombatNoDeath(attacker, defender) ==
    LET final_damage == ApplyDefense(CalculateDamage(attacker, defender), defender)
        hit == defender.energy - final_damage
        killed == hit <= 0
        def2 == [defender EXCEPT !.energy = Max(0, hit)]
        energy_gained == IF killed /\ attacker.diet = "carnivore"
                         THEN Min(50, defender.stage * 15 + (0 + final_damage) \div 5)
                         ELSE 0
        fed == IF killed /\ attacker.diet = "carnivore"
               THEN Min(MaxEnergy, attacker.energy + energy_gained)
               ELSE attacker.energy
    IN [attacker |-> [attacker EXCEPT !.energy = Max(0, fed - attack_cost)],
        defender |-> def2,
        damage |-> final_damage, killed |-> killed, energy_gained |-> energy_gained]
ResolveCombat(attacker, defender) ==
    LET final_damage == ApplyDefense(CalculateDamage(attacker, defender), defender)
        hit == defender.energy - final_damage
        killed == hit <= 0
        def2 == IF killed THEN [defender EXCEPT !.energy = 0, !.alive = FALSE]
                ELSE [defender EXCEPT !.energy = hit]
        energy_gained == IF killed /\ attacker.diet = "carnivore"
                         THEN Min(50, defender.stage * 15 + (0 + final_damage) \div 5)
                         ELSE 0
        fed == IF killed /\ attacker.diet = "carnivore"
               THEN Min(MaxEnergy, attacker.energy + energy_gained)
               ELSE attacker.energy
    IN [attacker |-> [attacker EXCEPT !.energy = Max(0, fed - attack_cost)],
        defender |-> def2,
        damage |-> final_damage, killed |-> killed, energy_gained |-> energy_gained]

\* can_attack
CanAttackAnyRange(creature, target) ==
    /\ creature.alive /\ target.alive
    /\ creature.energy >= attack_min_energy
    /\ creature.id # target.id
    /\ creature.player_id # target.player_id
CanAttack(creature, target) ==
    /\ creature.alive /\ target.alive
    /\ creature.energy >= attack_min_energy
    /\ creature.id # target.id
    /\ creature.player_id # target.player_id
    /\ 4 * Dist2(target.x, target.y, creature.x, creature.y) <= 9

---------------------------------------------------------------------------
(* World queries (world.py) *)

FoodTypes == {"apple", "banana", "grapes"}
Cardinals == {<<0, -1>>, <<0, 1>>, <<-1, 0>>, <<1, 0>>}

\* Position of the first element of a list with the given id; 0 is None.
FirstWithId(s, id) ==
    IF \E i \in 1..Len(s) : s[i].id = id
    THEN CHOOSE i \in 1..Len(s) : s[i].id = id /\ \A j \in 1..(i - 1) : s[j].id # id
    ELSE 0

\* spatial_index.rebuild: clear, then the living creatures, then the food.
Rebuild(cells, food) ==
    LET Alive(c) == c.alive
        live == SelectSeq(cells, Alive)
        cs == [i \in 1..Len(live) |->
                 [id |-> live[i].id, x |-> live[i].x, y |-> live[i].y, type |-> "creature"]]
        fs == [i \in 1..Len(food) |->
                 [id |-> food[i].id, x |-> food[i].x, y |-> food[i].y, type |-> "food"]]
    IN AddAll(EmptyGrid, cs \o fs, 1)

\* get_detection_radius exists on an Organism only.
DetectionRadius(creature) ==
    IF HasParts(creature) THEN 3 + creature.parts.sensors ELSE 3

\* list.sort(key=dist) is stable: element 0 of the sorted list is the first
\* entry of least distance. The rule engine and is_critical_situation read
\* element 0 only (the scan for dist <= 1 of a sorted list reads element 0),
\* so the neighbourhood keeps the head of each list: <<>> or <<entry>>.
NearestFirst(s) ==
    IF Len(s) = 0 THEN <<>>
    ELSE LET i == CHOOSE n \in 1..Len(s) :
                     /\ \A m \in 1..Len(s) : s[n].d2 <= s[m].d2
                     /\ \A m \in 1..(n - 1) : s[m].d2 > s[n].d2
         IN <<s[i]>>

\* World.get_nearby, food part: index hits whose id is still in world.food.
NearbyFood(w, creature) ==
    LET hits == GetNearbyIndex(w.grid, creature.x, creature.y,
                               DetectionRadius(creature), "food")
        Listed(h) == FirstWithId(w.food, h.id) # 0
        found == SelectSeq(hits, Listed)
    IN [i \in 1..Len(found) |->
          LET f == w.food[FirstWithId(w.food, found[i].id)]
          IN [x |-> f.x, y |-> f.y, id |-> f.id, type |-> f.type, d2 |-> found[i].d2]]

\* World.get_nearby, creature part: living creatures other than the asker,
\* not of its colony; position, energy and stage are read from the creature,
\* the distance from the index entry.
SameColony(a, b) ==
    /\ a.cls = "Multicellular" /\ b.cls = "Multicellular"
    /\ a.colony # 0 /\ b.colony # 0 /\ a.colony = b.colony

NearbyEnemy(w, creature) ==
    LET hits == GetNearbyIndex(w.grid, creature.x, creature.y,
                               DetectionRadius(creature), "creature")
        Seen(h) == LET n == FirstWithId(w.cells, h.id)
                   IN /\ n # 0
                      /\ w.cells[n].id # creature.id
                      /\ w.cells[n].alive
                      /\ ~SameColony(creature, w.cells[n])
        found == SelectSeq(hits, Seen)
    IN [i \in 1..Len(found) |->
          LET o == w.cells[FirstWithId(w.cells, found[i].id)]
          IN [x |-> o.x, y |-> o.y, id |-> o.id, d2 |-> found[i].d2,
              energy |-> o.energy, stage |-> o.stage]]

GetNearby(w, creature) ==
    [food |-> NearestFirst(NearbyFood(w, creature)),
     enemy |-> NearestFirst(NearbyEnemy(w, creature))]

---------------------------------------------------------------------------
(* Decisions (hybrid_decision_maker.py, llm_response_parser.py) *)

\* An action dict; a missing 'direction' reads as (0, 0), a missing
\* 'target_id' as NoTarget.
Act(a, d, t) == [action |-> a, direction |-> d, target_id |-> t]

Sign(a) == IF a > 0 THEN 1 ELSE IF a < 0 THEN -1 ELSE 0

\* _direction_to: the possible results (random.choice when on the target).
DirectionTo(cell, target) ==
    LET d == <<Sign(target.x - cell.x), Sign(target.y - cell.y)>>
    IN IF d = <<0, 0>> THEN Cardinals ELSE {d}

DirectionFrom(cell, target) == {<<-d[1], -d[2]>> : d \in DirectionTo(cell, target)}

\* is_critical_situation: dist < 1 on integer coordinates is d2 = 0.
IsCriticalNoHunger(cell, world_state) ==
    world_state.enemy # <<>> /\ world_state.enemy[1].d2 < 1
IsCriticalSituation(cell, world_state) ==
    \/ cell.energy < 20
    \/ (world_state.enemy # <<>> /\ world_state.enemy[1].d2 < 1)

\* rule_based_decision: the set of actions it can return.
RuleBasedDecision(cell, world_state) ==
    LET food == world_state.food
        enemy == world_state.enemy
        energy == cell.energy
        near == food # <<>> /\ food[1].d2 <= 2
    IN IF near /\ food[1].type = "water"
       THEN {Act("drink", <<0, 0>>, food[1].id)}
       ELSE IF near /\ food[1].type = "shelter" /\ enemy # <<>> /\ enemy[1].d2 <= 3
       THEN {Act("hide", <<0, 0>>, food[1].id)}
       ELSE IF near /\ food[1].type \notin {"water", "shelter"}
       THEN {Act("eat", <<0, 0>>, food[1].id)}
       ELSE IF energy < 20 /\ food # <<>>
       THEN {Act("move", d, NoTarget) : d \in DirectionTo(cell, food[1])}
       ELSE IF enemy # <<>> /\ enemy[1].d2 <= 3 /\ energy < 50
       THEN {Act("flee", d, NoTarget) : d \in DirectionFrom(cell, enemy[1])}
       ELSE IF /\ energy >= 50 /\ enemy # <<>> /\ enemy[1].d2 <= 2
               /\ (cell.diet = "carnivore" \/ energy > enemy[1].energy)
       THEN {Act("attack", <<0, 0>>, enemy[1].id)}
       ELSE IF energy >= 88
       THEN IF enemy # <<>> /\ enemy[1].d2 <= 1
            THEN {Act("reproduce", <<0, 0>>, NoTarget)}
            ELSE IF enemy # <<>>
            THEN {Act("move", d, NoTarget) : d \in DirectionTo(cell, enemy[1])}
            ELSE {Act("reproduce", <<0, 0>>, NoTarget)}
       ELSE IF food # <<>>
       THEN {Act("move", d, NoTarget) : d \in DirectionTo(cell, food[1])}
       ELSE {Act("move", d, NoTarget) : d \in Cardinals}

\* A response text is kept as the facts the parser reads from it: the
\* keywords that occur in it (substring tests) and the value of its first
\* run of digits (0 when it has none: "if target_id:" treats 0 as None).
Text(words, num) == [words |-> words, num |-> num]

\* extract_direction
ExtractDirection(response) ==
    IF "UP" \in response.words THEN {<<0, -1>>}
    ELSE IF "DOWN" \in response.words THEN {<<0, 1>>}
    ELSE IF "LEFT" \in response.words THEN {<<-1, 0>>}
    ELSE IF "RIGHT" \in response.words THEN {<<1, 0>>}
    ELSE Cardinals

\* parse: the first keyword of the if-chain that occurs decides.
Parse(response) ==
    LET w == response.words
    IN IF "MOVE" \in w
       THEN {Act("move", d, NoTarget) : d \in ExtractDirection(response)}
       ELSE IF "EAT" \in w THEN {Act("eat", <<0, 0>>, response.num)}
       ELSE IF "FLEE" \in w
       THEN {Act("flee", d, NoTarget) : d \in ExtractDirection(response)}
       ELSE IF "REPRODUCE" \in w \/ "REPRODUCTION" \in w
       THEN {Act("reproduce", <<0, 0>>, NoTarget)}
       ELSE IF "ATTACK" \in w THEN {Act("attack", <<0, 0>>, response.num)}
       ELSE IF "SIGNAL" \in w THEN {Act("signal", <<0, 0>>, NoTarget)}
       ELSE IF "CLAIM" \in w THEN {Act("claim", <<0, 0>>, NoTarget)}
       ELSE IF "COOPERATE" \in w \/ "COOPERATION" \in w
       THEN {Act("cooperate", <<0, 0>>, response.num)}
       ELSE IF "MIGRATE" \in w
       THEN {Act("migrate", d, NoTarget) : d \in ExtractDirection(response)}
       ELSE {Act("move", d, NoTarget) : d \in Cardinals}

\* A line of a batch response: head is "none" when the line has no colon,
\* "nan" when the part before the colon is not an integer, else "int" with
\* that integer as id; text is the part after the colon.
Line(head, id, text) == [head |-> head, id |-> id, text |-> text]

\* The choices of one value per key: the dicts whose value at k is in opts[k].
Choices(opts) ==
    {f \in [DOMAIN opts -> UNION {opts[k] : k \in DOMAIN opts}] :
        \A k \in DOMAIN opts : f[k] \in opts[k]}

\* parse_batch: a later line for an id overwrites an earlier one; lines for
\* ids outside the batch are skipped; ids left without a line get a random
\* cardinal move.
ParseBatchNoFill(lines, creature_ids) ==
    LET Named == {lines[n].id : n \in {m \in 1..Len(lines) : lines[m].head = "int"}}
        Last(id) == CHOOSE n \in 1..Len(lines) :
                        /\ lines[n].head = "int" /\ lines[n].id = id
                        /\ \A m \in (n + 1)..Len(lines) :
                              ~(lines[m].head = "int" /\ lines[m].id = id)
    IN Choices([id \in Named |-> Parse(lines[Last(id)].text)])
ParseBatch(lines, creature_ids) ==
    LET Named(id) == \E n \in 1..Len(lines) : lines[n].head = "int" /\ lines[n].id = id
        Last(id) == CHOOSE n \in 1..Len(lines) :
                        /\ lines[n].head = "int" /\ lines[n].id = id
                        /\ \A m \in (n + 1)..Len(lines) :
                              ~(lines[m].head = "int" /\ lines[m].id = id)
    IN Choices([id \in creature_ids |->
                  IF Named(id) THEN Parse(lines[Last(id)].text)
                  ELSE {Act("move", d, NoTarget) : d \in Cardinals}])

---------------------------------------------------------------------------
(* World.update_cells, one creature's turn (world.py 332-827).             *)
(* Each Do... operator gives the set of possible results of one branch of  *)
(* the loop body for the creature at position k of world.cells:            *)
(*   w    the world afterwards                                             *)
(*   ev   what happened: [kind, actor, other, made, amount]                *)
(*   skip TRUE when the branch leaves the iteration with "continue", so    *)
(*        that the death check and the aging are not reached.              *)
(*   imports TRUE when the branch executed an 'import random' statement    *)
(*        (lines 624, 807). These statements make 'random' a local name of *)
(*        update_cells, unbound until one of them has run in the call.     *)
(*   raised TRUE when the branch read the unbound local 'random' (line     *)
(*        590): UnboundLocalError leaves update_cells at once.             *)
(*   roll the value random.random() returned at line 590, in hundredths    *)
(*        (NoRoll when the branch drew none).                              *)

Ev(kind, actor, other, made, amount) ==
    [kind |-> kind, actor |-> actor, other |-> other, made |-> made, amount |-> amount]
NoRoll == -1
Result(w, ev, skip) ==
    [w |-> w, ev |-> ev, skip |-> skip, imports |-> FALSE, raised |-> FALSE,
     roll |-> NoRoll]
Importing(r) == [r EXCEPT !.imports = TRUE]
Rolled(r, roll) == [r EXCEPT !.roll = roll]
Raising(r) == [r EXCEPT !.raised = TRUE, !.skip = TRUE]

ClampXNoUpperEnd(w, v) == Max(0, v)
ClampX(w, v) == Max(0, Min(w.width - 1, v))
ClampY(w, v) == Max(0, Min(w.height - 1, v))

\* any(c.alive and c.id != creature.id and (c.x, c.y) == (x, y))
CollisionWithAnyBody(w, creature, x, y) ==
    \E n \in 1..Len(w.cells) :
        /\ w.cells[n].id # creature.id
        /\ w.cells[n].x = x /\ w.cells[n].y = y
Collision(w, creature, x, y) ==
    \E n \in 1..Len(w.cells) :
        /\ w.cells[n].alive /\ w.cells[n].id # creature.id
        /\ w.cells[n].x = x /\ w.cells[n].y = y

\* Position of the first element of a list that passes a test; 0 is None.
FirstThat(s, Test(_)) ==
    IF \E i \in 1..Len(s) : Test(s[i])
    THEN CHOOSE i \in 1..Len(s) : Test(s[i]) /\ \A j \in 1..(i - 1) : ~Test(s[j])
    ELSE 0

\* move_cost is 1 for every stage 1..3 and speed 0.5..5:
\* max(0.3, 1 - (stage-1)*0.1 - (speed-3)*0.15) lies in [0.5, 1.375].
move_cost == 1

\* move: one cell, clamped, refused when a living creature is there.
DoMove(w, k, a) ==
    LET c == w.cells[k]
        new_x == ClampX(w, c.x + a.direction[1])
        new_y == ClampY(w, c.y + a.direction[2])
    IN IF Collision(w, c, new_x, new_y)
       THEN {Result(w, Ev("blocked", c.id, 0, 0, 0), FALSE)}
       ELSE {Result([w EXCEPT !.cells[k].x = new_x, !.cells[k].y = new_y,
                              !.cells[k].energy = @ - move_cost],
                    Ev("move", c.id, 0, 0, move_cost), FALSE)}

\* flee_cost = max(1, 3 - speed // 2)
FleeCost(c) == Max(1, 3 - (c.speed2 \div 4))

\* flee: no occupancy check, and the cost is subtracted without a floor.
DoFlee(w, k, a) ==
    LET c == w.cells[k]
    IN {Result([w EXCEPT !.cells[k].x = ClampX(w, c.x + a.direction[1]),
                         !.cells[k].y = ClampY(w, c.y + a.direction[2]),
                         !.cells[k].energy = @ - FleeCost(c)],
               Ev("flee", c.id, 0, 0, FleeCost(c)), FALSE)}

\* resource_manager.can_access_resource: the values the call can return.
CanAccessResource == BOOLEAN

\* The energy a food item gives: int(v * 1.33) for a stage-3 creature with
\* a sharp mouth and a positive v (equal to (133 v) div 100 for v < 40).
EatValue(c, f) ==
    IF f.energy_value > 0 /\ c.stage = 3 /\ HasParts(c) /\ c.parts.mouth = "sharp"
    THEN (f.energy_value * 133) \div 100
    ELSE f.energy_value

IsLethalNever(w, food_type) == FALSE
IsLethal(w, food_type) ==
    IF food_type \in DOMAIN w.cfg THEN w.cfg[food_type].is_lethal ELSE FALSE

RemoveAt(s, n) == [i \in 1..(Len(s) - 1) |-> IF i < n THEN s[i] ELSE s[i + 1]]

\* eat: the food item by id, else the first one within one cell.
DoEatKeepsFood(w, k, a) ==
    LET c == w.cells[k]
        n == FirstWithId(w.food, a.target_id)
    IN IF n = 0 THEN {Result(w, Ev("eat_nothing", c.id, a.target_id, 0, 0), FALSE)}
       ELSE LET f == w.food[n]
            IN {Result([w EXCEPT !.grid = RemoveObject(@, f.id, f.x, f.y),
                                 !.cells[k].energy = Min(100, Max(0, @ + f.energy_value))],
                       Ev("eat", c.id, f.id, 0, f.energy_value), FALSE)}
DoEat(w, k, a) ==
    LET c == w.cells[k]
        Adjacent(f) == Abs(f.x - c.x) <= 1 /\ Abs(f.y - c.y) <= 1
        n == IF a.target_id # NoTarget THEN FirstWithId(w.food, a.target_id)
             ELSE FirstThat(w.food, Adjacent)
    IN IF n = 0 THEN {Result(w, Ev("eat_nothing", c.id, a.target_id, 0, 0), FALSE)}
       ELSE LET f == w.food[n]
                gone == [w EXCEPT !.grid = RemoveObject(@, f.id, f.x, f.y),
                                  !.food = RemoveAt(@, n)]
                v == EatValue(c, f)
                fed == IF IsLethal(w, f.type)
                       THEN [gone EXCEPT !.cells[k].energy = 0, !.cells[k].alive = FALSE]
                       ELSE IF v > 0
                       THEN [gone EXCEPT !.cells[k].energy = Min(100, @ + v)]
                       ELSE [gone EXCEPT !.cells[k].energy = Max(0, @ + v)]
            IN {IF ok THEN Result(fed, Ev("eat", c.id, f.id, 0, v), FALSE)
                      ELSE Result(w, Ev("eat_denied", c.id, f.id, 0, 0), TRUE)
                : ok \in CanAccessResource}

\* attack: the living creature with the target id, else the first living
\* creature of another player within distance 1.5; then Combat.
DoAttack(w, k, a) ==
    LET c == w.cells[k]
        ById(o) == o.id = a.target_id /\ o.alive
        InRange(o) == /\ o.id # c.id /\ o.alive /\ o.player_id # c.player_id
                      /\ 4 * Dist2(o.x, o.y, c.x, c.y) <= 9
        n == IF a.target_id # NoTarget THEN FirstThat(w.cells, ById)
             ELSE FirstThat(w.cells, InRange)
    IN IF n # 0 /\ CanAttack(c, w.cells[n])
       THEN LET r == ResolveCombat(c, w.cells[n])
                w1 == [w EXCEPT !.cells[n] = r.defender]
            IN {Result([w1 EXCEPT !.cells[k] = r.attacker],
                       Ev(IF r.killed THEN "kill" ELSE "attack", c.id, w.cells[n].id,
                          r.energy_gained, r.damage), FALSE)}
       ELSE {Result(w, Ev("attack_failed", c.id, a.target_id, 0, 0), FALSE)}

reproduce_min_energy == 88
offspring_energy == 50

\* max(40, 50 - (stage - 1) * 5)
ReproduceCostOfCell(c) == 50
ReproduceCost(c) == Max(40, 50 - (c.stage - 1) * 5)

\* Organism._generate_parts: the parts a new organism can get.
LimbChoices(speed) ==
    IF speed >= 4 THEN 4..6 ELSE IF speed <= 2 THEN 2..3 ELSE 3..4
GenerateParts(traits) ==
    {[mouth |-> CASE traits.diet = "carnivore" -> "sharp"
                  [] traits.diet = "herbivore" -> "grinding"
                  [] OTHER -> "versatile",
      limbs |-> l, sensors |-> n, defense |-> d] :
        l \in LimbChoices(traits.speed), n \in 2..5,
        d \in {"armor", "spikes", "camouflage", "none"}}

Colors == {"blue", "red", "green", "yellow", "purple", "orange", "pink", "cyan",
           "brown", "black", "white"}

\* The traits an offspring can get from its parent's traits: speed
\* int(speed * (1 + modifier)) clamped to 1..5, a random colour when the
\* variation says 'varied'.
OffspringTraits(traits) ==
    LET v == traits.variation
        speed == IF v.has_speed
                 THEN Max(1, Min(5, (traits.speed * (100 + v.speed)) \div 100))
                 ELSE traits.speed
    IN {[traits EXCEPT !.speed = speed, !.color = col] :
           col \in IF v.color THEN Colors ELSE {traits.color}}

\* int(50 * 1.1) = 55
OffspringEnergy(traits) ==
    IF traits.variation.strength THEN (offspring_energy * 11) \div 10 ELSE offspring_energy

\* The offspring objects a parent can get at (x, y), one per draw.
Offspring(w, parent, x, y) ==
    LET cls == CASE parent.stage = 1 -> "Cell" [] parent.stage = 2 -> "Multicellular"
                 [] OTHER -> "Organism"
    IN UNION {{[NewCreature(cls, w.rid, t, x, y, parent.player_id, parts)
                  EXCEPT !.energy = OffspringEnergy(parent.traits)] :
                 parts \in IF cls = "Organism" THEN GenerateParts(t) ELSE {NoParts}} :
              t \in OffspringTraits(parent.traits)}

\* add_cell: append to world.cells and add to the index.
AddCell(w, creature) ==
    [w EXCEPT !.cells = Append(@, creature),
              !.grid = AddObject(@, creature.id, creature.x, creature.y, "creature")]

\* compatibility = min(1.0, 0.7 + color_bonus + diet_bonus), in hundredths.
Compatibility(creature, other_creature) ==
    Min(100, 70 + (IF creature.color = other_creature.color THEN 10 ELSE 0)
                + (IF creature.diet = other_creature.diet THEN 10 ELSE 0))

\* Values of random.random(), in hundredths: at and next to each value the
\* compatibility can have.
Rolls == {70, 80, 81, 90, 91}

\* if partner.energy < 88: continue
PartnerAnyEnergy(partner) == TRUE
PartnerHasEnergy(partner) == partner.energy >= reproduce_min_energy

\* reproduce: both energies are tested against 88 here, when the action is
\* executed. The partner is the first living other creature on the same
\* cell, else the first within one cell. random.random() of line 590 reads
\* the local name 'random': it raises unless an import statement of this
\* call has bound it (bound). The attempt ends when the roll is greater
\* than the compatibility. The offspring goes to the first free cell of the
\* shuffled cardinal offsets: any free one.
DoReproduce(w, k, a, bound) ==
    LET c == w.cells[k]
        Same(o) == o.id # c.id /\ o.alive /\ o.x = c.x /\ o.y = c.y
        Near(o) == o.id # c.id /\ o.alive /\ Abs(o.x - c.x) <= 1 /\ Abs(o.y - c.y) <= 1
        n == IF FirstThat(w.cells, Same) # 0 THEN FirstThat(w.cells, Same)
             ELSE FirstThat(w.cells, Near)
        Taken(x, y) == \E m \in 1..Len(w.cells) :
                          w.cells[m].alive /\ w.cells[m].x = x /\ w.cells[m].y = y
        free == {q \in {<<ClampX(w, c.x + d[1]), ClampY(w, c.y + d[2])>> : d \in Cardinals} :
                    ~Taken(q[1], q[2])}
        cost == ReproduceCost(c)
        Born(child) ==
            LET paid == [w EXCEPT !.cells[k].energy = @ - cost]
                both == [paid EXCEPT !.cells[n].energy = @ - cost]
            IN Result([AddCell(both, child) EXCEPT !.rid = @ + 1],
                      Ev("reproduce", c.id, w.cells[n].id, child.id, cost), FALSE)
    IN IF c.energy < reproduce_min_energy
       THEN {Result(w, Ev("reproduce_low", c.id, 0, 0, 0), TRUE)}
       ELSE IF n = 0
       THEN {Result(w, Ev("reproduce_alone", c.id, 0, 0, 0), TRUE)}
       ELSE IF ~PartnerHasEnergy(w.cells[n])
       THEN {Result(w, Ev("reproduce_partner_low", c.id, w.cells[n].id, 0, 0), TRUE)}
       ELSE IF ~bound
       THEN {Raising(Result(w, Ev("reproduce_raised", c.id, w.cells[n].id, 0, 0), TRUE))}
       ELSE UNION {
              {Rolled(r, compatibility_roll) :
                  r \in IF compatibility_roll > Compatibility(c, w.cells[n])
                        THEN {Result(w, Ev("incompatible", c.id, w.cells[n].id, 0, 0), TRUE)}
                        ELSE IF free = {}
                        THEN {Result(w, Ev("no_space", c.id, w.cells[n].id, 0, 0), FALSE)}
                        ELSE UNION {{Born(child) : child \in Offspring(w, c, q[1], q[2])} :
                                       q \in free}} :
              compatibility_roll \in Rolls}

\* signal: the allies within 3 cells are told through the social system;
\* nothing of the world changes.
DoSignal(w, k, a) ==
    LET c == w.cells[k]
        allies == {n \in 1..Len(w.cells) :
                      /\ w.cells[n].id # c.id /\ w.cells[n].alive
                      /\ w.cells[n].player_id = c.player_id
                      /\ Abs(w.cells[n].x - c.x) <= 3 /\ Abs(w.cells[n].y - c.y) <= 3}
    IN {Result(w, Ev("signal", c.id, 0, 0, Cardinality(allies)), FALSE)}

region_size == 5

\* TerritoryManager.claim_territory: refused only when the region has a
\* living owner other than the claimer.
ClaimTerritoryAnyOwner(w, region_key, creature_id) ==
    LET owned == region_key \in DOMAIN w.territories
    IN IF owned /\ w.territories[region_key] = creature_id THEN [ok |-> TRUE, w |-> w]
       ELSE IF owned THEN [ok |-> FALSE, w |-> w]
       ELSE [ok |-> TRUE,
             w |-> [w EXCEPT !.territories =
                       (region_key :> creature_id) @@ w.territories]]
ClaimTerritory(w, region_key, creature_id) ==
    LET owned == region_key \in DOMAIN w.territories
        Owner(o) == o.id = w.territories[region_key]
        n == IF owned THEN FirstThat(w.cells, Owner) ELSE 0
    IN IF owned /\ w.territories[region_key] = creature_id THEN [ok |-> TRUE, w |-> w]
       ELSE IF owned /\ n # 0 /\ w.cells[n].alive THEN [ok |-> FALSE, w |-> w]
       ELSE [ok |-> TRUE,
             w |-> [w EXCEPT !.territories =
                       (region_key :> creature_id) @@ w.territories]]

\* claim: the region of the creature's position. The event names the owner
\* the region had (NoOwner when it had none).
NoOwner == 0
DoClaim(w, k, a) ==
    LET c == w.cells[k]
        region_key == <<c.x \div region_size, c.y \div region_size>>
        r == ClaimTerritory(w, region_key, c.id)
        had == IF region_key \in DOMAIN w.territories
               THEN w.territories[region_key] ELSE NoOwner
    IN {Result(r.w, Ev(IF r.ok THEN "claim" ELSE "claim_refused", c.id, had, 0, 0), FALSE)}

\* cooperate: the living creature with the target id, else the first living
\* ally within distance 2; min(10, energy // 4) is handed over.
DoCooperate(w, k, a) ==
    LET c == w.cells[k]
        ById(o) == o.id = a.target_id /\ o.alive
        Ally(o) == /\ o.id # c.id /\ o.alive /\ o.player_id = c.player_id
                   /\ Dist2(o.x, o.y, c.x, c.y) <= 4
        n == IF a.target_id # NoTarget THEN FirstThat(w.cells, ById)
             ELSE FirstThat(w.cells, Ally)
        share_amount == Min(10, c.energy \div 4)
    IN IF n # 0 /\ share_amount > 0
       THEN LET w1 == [w EXCEPT !.cells[k].energy = @ - share_amount]
            IN {Result([w1 EXCEPT !.cells[n].energy = Min(100, @ + share_amount)],
                       Ev("cooperate", c.id, w.cells[n].id, 0, share_amount), FALSE)}
       ELSE {Result(w, Ev("cooperate_nothing", c.id, a.target_id, 0, 0), FALSE)}

\* resource_manager.get_resource_rich_areas: the first area it can return
\* (<<>> when it returns none).
RichSites == {<<0, 0>>, <<6, 1>>}
RichAreas == {<<>>} \cup {<<p>> : p \in RichSites}

\* migrate: one step toward the first rich area unless a living creature is
\* there; with no rich area a random cardinal step without occupancy check.
\* migrate_cost is 1 for every speed.
migrate_cost == 1
DoMigrate(w, k, a) ==
    LET c == w.cells[k]
        Toward(p) ==
            LET new_x == ClampX(w, c.x + Sign(p[1] - c.x))
                new_y == ClampY(w, c.y + Sign(p[2] - c.y))
            IN IF Collision(w, c, new_x, new_y)
               THEN Result(w, Ev("migrate_blocked", c.id, 0, 0, 0), FALSE)
               ELSE Result([w EXCEPT !.cells[k].x = new_x, !.cells[k].y = new_y,
                                     !.cells[k].energy = @ - migrate_cost],
                           Ev("migrate", c.id, 0, 0, migrate_cost), FALSE)
        Randomly(d) ==
            Importing(Result([w EXCEPT !.cells[k].x = ClampX(w, c.x + d[1]),
                             !.cells[k].y = ClampY(w, c.y + d[2]),
                             !.cells[k].energy = @ - 1],
                   Ev("migrate_random", c.id, 0, 0, 1), FALSE))
    IN UNION {IF areas = <<>> THEN {Randomly(d) : d \in Cardinals}
              ELSE {Toward(areas[1])} : areas \in RichAreas}

\* Whether update_cells appends a line to its events list for the outcome
\* of an iteration. A blocked move, an eat whose item is not in the food
\* list, a signal that reaches no ally, a cooperate without receiver and
\* both migrate outcomes that are not a step toward a rich area only print.
EventAppended(ev) ==
    \/ ev.kind \in {"move", "eat", "eat_denied", "flee", "attack", "kill",
                    "attack_failed", "reproduce_low", "reproduce_alone",
                    "reproduce_partner_low", "incompatible", "reproduce", "no_space",
                    "claim", "claim_refused", "cooperate", "migrate"}
    \/ ev.kind = "signal" /\ ev.amount > 0

\* The death check and the aging that end an iteration.
Finish(w, k) ==
    [w EXCEPT !.cells[k].alive = IF w.cells[k].energy <= 0 /\ @ THEN FALSE ELSE @,
              !.cells[k].age = @ + 1]

\* The if/elif chain on action_type; 'drink', 'hide' and any other type
\* match no branch.
Branch(w, k, a, bound) ==
    CASE a.action = "move" -> DoMove(w, k, a)
      [] a.action = "eat" -> DoEat(w, k, a)
      [] a.action = "flee" -> DoFlee(w, k, a)
      [] a.action = "attack" -> DoAttack(w, k, a)
      [] a.action = "reproduce" -> DoReproduce(w, k, a, bound)
      [] a.action = "signal" -> DoSignal(w, k, a)
      [] a.action = "claim" -> DoClaim(w, k, a)
      [] a.action = "cooperate" -> DoCooperate(w, k, a)
      [] a.action = "migrate" -> DoMigrate(w, k, a)
      [] OTHER -> {Result(w, Ev("unhandled", w.cells[k].id, 0, 0, 0), FALSE)}

\* One iteration of the loop for a living creature that has an action.
Turn(w, k, a, bound) ==
    {IF r.skip THEN r ELSE [r EXCEPT !.w = Finish(r.w, k)] : r \in Branch(w, k, a, bound)}

---------------------------------------------------------------------------
(* Environment.update (environment.py). Each step maps a pair of world and *)
(* environment to the set of pairs it can leave.                           *)

weather_interval == 20
predator_spawn_interval == 15
disaster_interval == 50
predator_energy == 80
predator_speed == 4

WeatherTypes == {"clear", "storm", "fog", "heat_wave", "cold_snap"}

St(w, e) == [w |-> w, env |-> e]
Bind(S, F(_)) == UNION {F(st) : st \in S}

\* Every living creature that passes the test loses amount, floored at 0;
\* kills says whether reaching 0 clears the alive flag.
Drain(cells, Hit(_), amount, kills) ==
    [n \in 1..Len(cells) |->
        IF cells[n].alive /\ Hit(cells[n])
        THEN LET e == Max(0, cells[n].energy - amount)
             IN [cells[n] EXCEPT !.energy = e,
                                 !.alive = IF kills /\ e = 0 THEN FALSE ELSE @]
        ELSE cells[n]]

\* _change_weather, every weather_interval turns.
ChangeWeather(st) ==
    IF st.env.turn_counter - st.env.weather_change_turn >= weather_interval
    THEN {St(st.w, [st.env EXCEPT !.weather = wt,
                                  !.weather_change_turn = st.env.turn_counter]) :
             wt \in WeatherTypes}
    ELSE {st}

\* The edge positions a predator spawn is tried at.
PredatorSites == {<<0, 1>>, <<3, 0>>}

\* _spawn_predator: nothing without a living player creature; else a Cell
\* with the next id of the world's counter on an edge position that holds
\* no creature (living or dead) and no food; after more than 10 occupied
\* draws nothing is spawned.
SpawnPredator(st) ==
    LET w == st.w
        Hunted(c) == c.alive /\ c.player_id # NoPlayer
        Held(q) == \/ \E n \in 1..Len(w.cells) : w.cells[n].x = q[1] /\ w.cells[n].y = q[2]
                   \/ \E n \in 1..Len(w.food) : w.food[n].x = q[1] /\ w.food[n].y = q[2]
        Spawned(q) ==
            LET predator == [NewCreature("Cell", w.rid,
                                         Traits("red", predator_speed, "carnivore", NoVariation),
                                         q[1], q[2], NoPlayer, NoParts)
                             EXCEPT !.energy = predator_energy]
            IN St([AddCell(w, predator) EXCEPT !.rid = @ + 1],
                  [st.env EXCEPT !.predators = Append(@, predator.id)])
    IN IF st.env.turn_counter > 0 /\ st.env.turn_counter % predator_spawn_interval = 0
          /\ FirstThat(w.cells, Hunted) # 0
       THEN {Spawned(q) : q \in {p \in PredatorSites : ~Held(p)}}
            \cup (IF \E p \in PredatorSites : Held(p) THEN {st} ELSE {})
       ELSE {st}

\* The action _update_predators stores for one living predator (<<>> when
\* it stores none): attack the nearest living player creature when it is
\* within 1.5 and the predator has 50 energy, else step toward it.
PredatorAction(w, predator) ==
    LET prey == {n \in 1..Len(w.cells) :
                    w.cells[n].alive /\ w.cells[n].player_id # NoPlayer}
        D(n) == Dist2(w.cells[n].x, w.cells[n].y, predator.x, predator.y)
        t == CHOOSE n \in prey : /\ \A m \in prey : D(n) <= D(m)
                                 /\ \A m \in prey : m < n => D(m) > D(n)
    IN IF prey = {} THEN <<>>
       ELSE IF 4 * D(t) <= 9
       THEN IF predator.energy >= attack_min_energy
            THEN <<Act("attack", <<0, 0>>, w.cells[t].id)>>
            ELSE <<>>
       ELSE <<Act("move", <<Sign(w.cells[t].x - predator.x),
                            Sign(w.cells[t].y - predator.y)>>, NoTarget)>>

RECURSIVE PredatorsFrom(_, _, _)
PredatorsFrom(st, ids, i) ==
    IF i > Len(ids) THEN st
    ELSE LET pid == ids[i]
             Is(o) == o.id = pid
             Other(x) == x # pid
             n == FirstThat(st.w.cells, Is)
         IN IF n = 0 \/ ~st.w.cells[n].alive
            THEN PredatorsFrom(St(st.w, [st.env EXCEPT !.predators = SelectSeq(@, Other)]),
                               ids, i + 1)
            ELSE LET act == PredatorAction(st.w, st.w.cells[n])
                 IN IF act = <<>> THEN PredatorsFrom(st, ids, i + 1)
                    ELSE PredatorsFrom(
                           St([st.w EXCEPT !.predator_actions = (pid :> act[1]) @@ @],
                              st.env), ids, i + 1)

\* _update_predators
UpdatePredators(st) == {PredatorsFrom(st, st.env.predators, 1)}

\* The places, radii and durations a disaster is drawn from.
DisasterSites == {<<1, 1>>, <<6, 6>>}
EarthquakeRadii == {3, 5}
EarthquakeDurations == {3}
FloodRadii == {4}
FloodDurations == {4}

\* int(15 * (1 - dist / radius)): the largest k with 15 dist <= (15 - k)
\* radius, except that the float product falls just below 3 at distance 4,
\* radius 5.
EarthquakeDamage(d2, radius) ==
    IF radius = 5 /\ d2 = 16 THEN 2
    ELSE CHOOSE k \in 0..15 :
            /\ 225 * d2 <= ((15 - k) * radius) * ((15 - k) * radius)
            /\ \A j \in (k + 1)..15 : 225 * d2 > ((15 - j) * radius) * ((15 - j) * radius)

Disaster(type, x, y, radius, duration, turn) ==
    [type |-> type, x |-> x, y |-> y, radius |-> radius, duration |-> duration,
     turn |-> turn]

Within(o, d) == Dist2(o.x, o.y, d.x, d.y) <= d.radius * d.radius

\* _trigger_earthquake: each living creature within the radius loses the
\* distance-scaled damage and dies at 0.
TriggerEarthquake(st, d) ==
    LET Shaken(c) ==
            IF c.alive /\ Within(c, d)
            THEN LET e == Max(0, c.energy - EarthquakeDamage(Dist2(c.x, c.y, d.x, d.y), d.radius))
                 IN [c EXCEPT !.energy = e, !.alive = IF e = 0 THEN FALSE ELSE @]
            ELSE c
    IN St([st.w EXCEPT !.cells = [n \in 1..Len(@) |-> Shaken(@[n])]],
          [st.env EXCEPT !.active_disasters = Append(@, d)])

\* The index after remove_object for each of the listed food items.
RECURSIVE RemoveAll(_, _, _)
RemoveAll(grid, items, n) ==
    IF n > Len(items) THEN grid
    ELSE RemoveAll(RemoveObject(grid, items[n].id, items[n].x, items[n].y), items, n + 1)

\* _trigger_flood: the food within the radius leaves the index and the
\* list; each living creature within the radius loses 5 and dies at 0.
TriggerFlood(st, d) ==
    LET Washed(f) == Within(f, d)
        Kept(f) == ~Within(f, d)
        Hit(c) == Within(c, d)
    IN St([st.w EXCEPT !.grid = RemoveAll(@, SelectSeq(st.w.food, Washed), 1),
                       !.food = SelectSeq(@, Kept),
                       !.cells = Drain(@, Hit, 5, TRUE)],
          [st.env EXCEPT !.active_disasters = Append(@, d)])

\* disaster_timer += 1, and a random disaster every disaster_interval turns.
TriggerDisaster(st) ==
    LET timer == st.env.disaster_timer + 1
        tc == st.env.turn_counter
    IN IF timer >= disaster_interval
       THEN LET reset == St(st.w, [st.env EXCEPT !.disaster_timer = 0])
            IN {TriggerEarthquake(reset, Disaster("earthquake", q[1], q[2], r, t, tc)) :
                   q \in DisasterSites, r \in EarthquakeRadii, t \in EarthquakeDurations}
               \cup
               {TriggerFlood(reset, Disaster("flood", q[1], q[2], r, t, tc)) :
                   q \in DisasterSites, r \in FloodRadii, t \in FloodDurations}
       ELSE {St(st.w, [st.env EXCEPT !.disaster_timer = timer])}

\* _update_disasters: each disaster that has not run out drains the living
\* creatures within its radius (2 for an earthquake, 3 for a flood, death
\* at 0); the ones that have run out are removed.
RECURSIVE DisastersFrom(_, _, _, _)
DisastersFrom(cells, disasters, tc, i) ==
    IF i > Len(disasters) THEN cells
    ELSE LET d == disasters[i]
             Hit(c) == Within(c, d)
         IN IF tc - d.turn >= d.duration
            THEN DisastersFrom(cells, disasters, tc, i + 1)
            ELSE DisastersFrom(
                   Drain(cells, Hit, IF d.type = "earthquake" THEN 2 ELSE 3, TRUE),
                   disasters, tc, i + 1)

UpdateDisastersKeepAll(st) ==
    {St([st.w EXCEPT !.cells = DisastersFrom(@, st.env.active_disasters,
                                             st.env.turn_counter, 1)], st.env)}
UpdateDisasters(st) ==
    LET tc == st.env.turn_counter
        Running(d) == tc - d.turn < d.duration
    IN {St([st.w EXCEPT !.cells = DisastersFrom(@, st.env.active_disasters, tc, 1)],
           [st.env EXCEPT !.active_disasters = SelectSeq(@, Running)])}

\* _apply_weather_effects: a drain floored at 0 that leaves the alive flag.
ApplyWeatherEffectsEven(st) ==
    IF st.env.weather \in {"storm", "heat_wave", "cold_snap"}
    THEN {St([st.w EXCEPT !.cells = Drain(@, LAMBDA c : TRUE, 1, FALSE)], st.env)}
    ELSE {st}
ApplyWeatherEffects(st) ==
    LET amount == CASE st.env.weather = "storm" -> 1
                    [] st.env.weather = "heat_wave" -> 2
                    [] st.env.weather = "cold_snap" -> 1
                    [] OTHER -> 0
        All(c) == TRUE
    IN IF amount = 0 THEN {st}
       ELSE {St([st.w EXCEPT !.cells = Drain(@, All, amount, FALSE)], st.env)}

\* Environment.update
EnvironmentUpdate(w, e) ==
    LET start == {St(w, [e EXCEPT !.turn_counter = @ + 1])}
    IN Bind(Bind(Bind(Bind(Bind(Bind(start, ChangeWeather), SpawnPredator),
                           UpdatePredators), TriggerDisaster), UpdateDisasters),
            ApplyWeatherEffects)

---------------------------------------------------------------------------
(* The end of World.update_cells (world.py 829-850) *)

resource_id_start == 1000

\* The positions respawned food is drawn at, and the most food one respawn
\* is asked for.
SpawnSites == {<<2, 1>>, <<5, 5>>}
MaxRespawn == 1

\* int(round(base_energy * uniform(0.9, 1.1))), negated for a type that
\* removes energy: base - 2, base and base + 2 are reached for every base
\* in 25..35.
SpawnValues(w, food_type) ==
    LET base == w.cfg[food_type].base_energy
    IN {IF w.cfg[food_type].is_positive THEN v ELSE -v : v \in {base - 2, base, base + 2}}

Food(id, x, y, type, energy_value) ==
    [id |-> id, x |-> x, y |-> y, type |-> type, energy_value |-> energy_value]

\* spawn_resources: up to num_food items (a draw on a creature's cell or a
\* failed density roll spawns nothing), each with the next id of the
\* counter, each added to the food list and to the index.
RECURSIVE SpawnResources(_, _)
SpawnResources(w, num_food) ==
    IF num_food = 0 THEN {w}
    ELSE {w} \cup
         UNION {UNION {SpawnResources(
                          [w EXCEPT !.food = Append(@, Food(w.rid, q[1], q[2], t, v)),
                                    !.grid = AddObject(@, w.rid, q[1], q[2], "food"),
                                    !.rid = @ + 1],
                          num_food - 1) : v \in SpawnValues(w, t)} :
                q \in {p \in SpawnSites :
                          ~\E n \in 1..Len(w.cells) :
                              w.cells[n].x = p[1] /\ w.cells[n].y = p[2]},
                t \in FoodTypes}

\* resource_manager.should_respawn_food: the amounts it can ask for (0 when
\* it says no).
ShouldRespawnFood == 0..MaxRespawn

\* resource_manager.process_resource_depletion: no effect on the world.
ProcessResourceDepletion(w) == w

\* After the loop: depletion, the environment, the index rebuild, the
\* respawn on even turns (with a second rebuild), turn += 1.
FinishUpdate(w, e) ==
    LET AfterEnvironment(st) ==
            LET built == [st.w EXCEPT !.grid = Rebuild(st.w.cells, st.w.food)]
                grown == IF built.turn % 2 = 0
                         THEN UNION {IF amount > 0
                                     THEN {[g EXCEPT !.grid = Rebuild(g.cells, g.food)] :
                                              g \in SpawnResources(built, amount)}
                                     ELSE {built} : amount \in ShouldRespawnFood}
                         ELSE {built}
            IN {St([g EXCEPT !.turn = @ + 1], st.env) : g \in grown}
    IN Bind(EnvironmentUpdate(ProcessResourceDepletion(w), e), AfterEnvironment)

---------------------------------------------------------------------------
(* StageManager (stage_manager.py) and Creature.can_evolve (creature.py) *)

evolve_cost == 50
evolution_interval == 5
stage3_world_size == 40

\* len(colony.members): a colony only ever gets the Multicellular that made it.
ColonySize(w, c) ==
    Cardinality({n \in 1..Len(w.cells) :
                    w.cells[n].cls = "Multicellular" /\ w.cells[n].colony = c.colony})

CanEvolveAnyAge(w, c) ==
    IF c.stage = 1 THEN c.energy > 80
    ELSE FALSE
CanEvolve(w, c) ==
    IF c.stage = 1 THEN c.energy > 80 /\ c.age > 10
    ELSE IF c.stage = 2
    THEN /\ c.cls = "Multicellular" /\ c.colony # 0
         /\ c.energy > 90 /\ c.age > 20 /\ ColonySize(w, c) >= 3
    ELSE FALSE

\* scale_world_for_stage(world, 3): the world grows to 40 x 40 and every
\* creature is shifted by half the growth.
ScaleWorld(w) ==
    IF w.width < stage3_world_size \/ w.height < stage3_world_size
    THEN LET offset_x == (stage3_world_size - w.width) \div 2
             offset_y == (stage3_world_size - w.height) \div 2
         IN [w EXCEPT !.width = stage3_world_size, !.height = stage3_world_size,
                      !.cells = [n \in 1..Len(@) |->
                                   [@[n] EXCEPT !.x = @ + offset_x, !.y = @ + offset_y]]]
    ELSE w

\* evolve_creature for a creature that can evolve: the cost is paid and a
\* new object of the next class, with the same id, traits, position and
\* owner and the energy left, replaces it in world.cells.
EvolveCreature(w, n) ==
    LET c == w.cells[n]
        left == c.energy - evolve_cost
    IN IF c.stage = 1
       THEN {[w EXCEPT !.cells[n] =
                 [NewCreature("Multicellular", c.id, c.traits, c.x, c.y, c.player_id, NoParts)
                  EXCEPT !.energy = left]]}
       ELSE {ScaleWorld([w EXCEPT !.cells[n] =
                 [NewCreature("Organism", c.id, c.traits, c.x, c.y, c.player_id, parts)
                  EXCEPT !.energy = left]]) : parts \in GenerateParts(c.traits)}

\* check_and_evolve_all: every living creature that can evolve, in list order.
RECURSIVE EvolveFrom(_, _)
EvolveFrom(w, n) ==
    IF n > Len(w.cells) THEN {w}
    ELSE IF w.cells[n].alive /\ CanEvolve(w, w.cells[n])
              /\ w.cells[n].energy >= evolve_cost
         THEN UNION {EvolveFrom(v, n + 1) : v \in EvolveCreature(w, n)}
         ELSE EvolveFrom(w, n + 1)

CheckAndEvolveAll(w) == EvolveFrom(w, 1)

---------------------------------------------------------------------------
(* Simulation.step (simulation.py 41-128) with HybridDecisionMaker          *)
(* .decide_batch (hybrid_decision_maker.py 77-118), as the steps between   *)
(* its suspension points.                                                  *)
(*   step.pc  "idle"          between two calls of step                    *)
(*            "batch"         at the head of the batch loop                *)
(*            "await_batch"   suspended in wait_for(chat(batch_prompt))    *)
(*            "fallback"      at the head of the individual-call loop      *)
(*            "await_single"  suspended in _call_llm                       *)
(*            "resolve"       inside the loop of World.update_cells        *)
(*            "crashed"       step has raised: the game loop of the server *)
(*                            (server.py 720-728) ends the game            *)
(*   step.random  whether the local name 'random' of update_cells is bound *)

batch_size == 4
Call(kind, ids) == [kind |-> kind, ids |-> ids]
NoEv == Ev("none", 0, 0, 0, 0)
EmptyDict == [k \in {} |-> NoEv]

\* dict.update
Update(d, e) == e @@ d

\* The batch that starts at offset i of the normal creatures.
Batch(normal, i) == SubSeq(normal, i + 1, Min(Len(normal), i + batch_size))

BatchIds(batch) == [n \in 1..Len(batch) |-> batch[n].id]
Range(q) == {q[n] : n \in 1..Len(q)}

StepIdle ==
    [pc |-> "idle", actions |-> EmptyDict, critical |-> <<>>, normal |-> <<>>,
     i |-> 0, j |-> 0, batch_actions |-> EmptyDict, k |-> 0, left |-> 0,
     random |-> FALSE]
ObsIdle ==
    [energy0 |-> EmptyDict, gone |-> {}, born |-> {}, ev |-> NoEv, waited |-> 0,
     timed_out |-> {}, issued |-> EmptyDict, returned |-> <<>>, before |-> <<>>,
     pos0 |-> EmptyDict, taken |-> EmptyDict, roll |-> NoRoll]
WorldIdle ==
    [cells |-> <<>>, food |-> <<>>, grid |-> EmptyGrid, rid |-> resource_id_start,
     turn |-> 0, width |-> 0, height |-> 0, cfg |-> EmptyDict,
     territories |-> EmptyDict, predator_actions |-> EmptyDict]
EnvIdle ==
    [weather |-> "clear", turn_counter |-> 0, weather_change_turn |-> 0,
     disaster_timer |-> 0, active_disasters |-> <<>>, predators |-> <<>>]
LlmIdle == [calls |-> {}, texts |-> {}, merge |-> "none"]
GameIdle ==
    [status |-> "running", attempt_number |-> 1, current_stage |-> 1,
     total_attempts |-> 0, restarts |-> 0, prompts |-> 0]

\* The ids of the creatures and the food of a world.
AllIds(w) == SeqIds(w.cells) \cup SeqIds(w.food)

\* The entry of the normal (or critical) list for the creature at position
\* k of world.cells: the creature by id and position, and its world_state.
Entry(w, k) == [k |-> k, id |-> w.cells[k].id, ws |-> GetNearby(w, w.cells[k])]

\* is_population_extinct: no creature of a player is alive.
IsPopulationExtinct(w) ==
    \A k \in 1..Len(w.cells) :
        w.cells[k].player_id # NoPlayer => ~w.cells[k].alive

\* Lines 54-82 of step: every living creature gets its neighbourhood and is
\* classified; the critical ones get their rule-based action at once. The
\* game loop calls step only while it is not waiting for a prompt
\* (server.py 629-636).
StepBegin ==
    /\ step.pc = "idle" /\ step.left > 0
    /\ game.status = "running"
    /\ LET living == SelectSeq([k \in 1..Len(world.cells) |-> k],
                               LAMBDA k : world.cells[k].alive)
           entries == [n \in 1..Len(living) |-> Entry(world, living[n])]
           Critical(en) == IsCriticalSituation(world.cells[en.k], en.ws)
           Normal(en) == ~IsCriticalSituation(world.cells[en.k], en.ws)
           critical == SelectSeq(entries, Critical)
           normal == SelectSeq(entries, Normal)
           opts == [id \in {critical[n].id : n \in 1..Len(critical)} |->
                      LET n == FirstWithId(critical, id)
                      IN RuleBasedDecision(world.cells[critical[n].k], critical[n].ws)]
       IN \E acts \in Choices(opts) :
             /\ step' = [step EXCEPT !.pc = "batch", !.actions = acts,
                                     !.critical = critical, !.normal = normal,
                                     !.i = 0, !.j = 0, !.batch_actions = EmptyDict,
                                     !.k = 0]
             /\ obs' = [obs EXCEPT
                          !.energy0 = [id \in {world.cells[k].id : k \in 1..Len(world.cells)} |->
                                         world.cells[FirstWithId(world.cells, id)].energy],
                          !.pos0 = [id \in {world.cells[k].id :
                                              k \in {n \in 1..Len(world.cells) :
                                                        world.cells[n].alive}} |->
                                      LET c == world.cells[FirstWithId(world.cells, id)]
                                      IN <<c.x, c.y>>],
                          !.taken = EmptyDict,
                          !.ev = NoEv, !.waited = 0, !.timed_out = {},
                          !.issued = [id \in {normal[n].id : n \in 1..Len(normal)} |-> 0],
                          !.returned = <<>>]
    /\ UNCHANGED <<ix, cb, game, world, env, llm>>

\* decide_batch up to its await: the batch prompt is sent.
IssueBatch ==
    /\ step.pc = "batch" /\ step.i < Len(step.normal)
    /\ LET ids == BatchIds(Batch(step.normal, step.i))
       IN /\ llm' = [llm EXCEPT !.calls = @ \cup {Call("batch", ids)}]
          /\ obs' = [obs EXCEPT !.issued = [id \in DOMAIN @ |->
                                              IF id \in Range(ids) THEN @[id] + 1 ELSE @[id]]]
    /\ step' = [step EXCEPT !.pc = "await_batch"]
    /\ UNCHANGED <<ix, cb, game, world, env>>

\* The batch responses the service can give: up to MaxLines lines, each
\* without a colon, with a non-integer before it, or "id:text" for an id of
\* the batch or another id, the text from the vocabulary of the run.
MaxLines == 2
Lines(ids) ==
    LET others == ({0} \cup {world.cells[k].id : k \in 1..Len(world.cells)}) \ ids
    IN {Line("none", 0, Text({}, 0)), Line("nan", 0, Text({}, 0))}
       \cup {Line("int", id, t) : id \in ids \cup others, t \in llm.texts}
Responses(ids) == UNION {[1..n -> Lines(ids)] : n \in 0..MaxLines}

\* wait_for cancels the call it gave up on.
AbandonKeepsCall(call) == {call}
Abandon(call) == {}

\* The call the coroutine is suspended on.
Awaited ==
    IF step.pc = "await_batch"
    THEN Call("batch", BatchIds(Batch(step.normal, step.i)))
    ELSE Call("single", <<Batch(step.normal, step.i)[step.j].id>>)

\* The batch call answers in time: parse_batch, return, actions.update.
BatchReply ==
    /\ step.pc = "await_batch"
    /\ LET ids == Range(Awaited.ids)
       IN \E response \in Responses(ids) :
             \E acts \in ParseBatch(response, ids) :
                /\ step' = [step EXCEPT !.pc = "batch", !.i = @ + batch_size,
                                        !.actions = Update(@, acts)]
                /\ obs' = [obs EXCEPT !.returned =
                              LET named == {response[n].id :
                                              n \in {m \in 1..Len(response) :
                                                        response[m].head = "int"}}
                              IN <<[ids |-> ids, acts |-> acts, how |-> "reply",
                                    foreign |-> named \ ids # {},
                                    missing |-> ids \ named # {}]>>]
    /\ llm' = [llm EXCEPT !.calls = @ \ {Awaited}]
    /\ UNCHANGED <<ix, cb, game, world, env>>

\* The batch call runs out of time: the except branch starts the
\* individual calls.
BatchTimeout ==
    /\ step.pc = "await_batch"
    /\ step' = [step EXCEPT !.pc = "fallback", !.j = 1, !.batch_actions = EmptyDict]
    /\ llm' = [llm EXCEPT !.calls = (@ \ {Awaited}) \cup Abandon(Awaited)]
    /\ obs' = [obs EXCEPT !.waited = @ + 1,
                          !.timed_out = @ \cup Range(Awaited.ids)]
    /\ UNCHANGED <<ix, cb, game, world, env>>

\* The batch call raises (network error, HTTP status, unusable body): the
\* same except branch.
BatchError ==
    /\ step.pc = "await_batch"
    /\ step' = [step EXCEPT !.pc = "fallback", !.j = 1, !.batch_actions = EmptyDict]
    /\ llm' = [llm EXCEPT !.calls = @ \ {Awaited}]
    /\ UNCHANGED <<ix, cb, game, world, env, obs>>

\* _call_llm for the j-th creature of the batch, without wait_for.
IssueIndividual ==
    /\ step.pc = "fallback"
    /\ LET id == Batch(step.normal, step.i)[step.j].id
       IN /\ llm' = [llm EXCEPT !.calls = @ \cup {Call("single", <<id>>)}]
          /\ obs' = [obs EXCEPT !.issued[id] = @ + 1]
    /\ step' = [step EXCEPT !.pc = "await_single"]
    /\ UNCHANGED <<ix, cb, game, world, env>>

\* The step after the j-th individual decision: the next creature of the
\* batch, or the return of decide_batch and actions.update.
Advance(acts) ==
    LET batch == Batch(step.normal, step.i)
    IN IF step.j = Len(batch)
       THEN /\ step' = [step EXCEPT !.pc = "batch", !.i = @ + batch_size, !.j = 0,
                                    !.batch_actions = EmptyDict,
                                    !.actions = Update(@, acts)]
            /\ obs' = [obs EXCEPT !.returned =
                          <<[ids |-> Range(BatchIds(batch)), acts |-> acts,
                             how |-> "fallback", foreign |-> FALSE,
                             missing |-> FALSE]>>]
       ELSE /\ step' = [step EXCEPT !.pc = "fallback", !.j = @ + 1,
                                    !.batch_actions = acts]
            /\ UNCHANGED obs

\* The individual call answers: parse.
IndividualReply ==
    /\ step.pc = "await_single"
    /\ \E response \in llm.texts :
          \E action \in Parse(response) :
             Advance(Update(step.batch_actions, Awaited.ids[1] :> action))
    /\ llm' = [llm EXCEPT !.calls = @ \ {Awaited}]
    /\ UNCHANGED <<ix, cb, game, world, env>>

\* The individual call raises: the rule engine decides.
IndividualError ==
    /\ step.pc = "await_single"
    /\ LET en == Batch(step.normal, step.i)[step.j]
       IN \E action \in RuleBasedDecision(world.cells[en.k], en.ws) :
             Advance(Update(step.batch_actions, en.id :> action))
    /\ llm' = [llm EXCEPT !.calls = @ \ {Awaited}]
    /\ UNCHANGED <<ix, cb, game, world, env>>

\* update_cells is entered once the batch loop is over: the stored predator
\* actions are merged into the actions and dropped. What obs recorded of the
\* decision phase ends with it.
UpdateCellsBegin ==
    /\ step.pc = "batch" /\ step.i >= Len(step.normal)
    /\ step' = [step EXCEPT !.pc = "resolve", !.k = 1,
                            !.actions = Update(@, world.predator_actions)]
    /\ world' = [world EXCEPT !.predator_actions = EmptyDict]
    /\ obs' = [obs EXCEPT !.waited = 0, !.timed_out = {}, !.issued = EmptyDict,
                          !.returned = <<>>]
    /\ UNCHANGED <<ix, cb, game, env, llm>>

\* One iteration of the loop over world.cells. An exception of the
\* iteration leaves update_cells and step.
ResolveOne ==
    /\ step.pc = "resolve" /\ step.k <= Len(world.cells)
    /\ LET c == world.cells[step.k]
       IN IF ~c.alive
          THEN /\ world' = world
               /\ obs' = [obs EXCEPT !.ev = Ev("dead", c.id, 0, 0, 0), !.roll = NoRoll]
               /\ step' = [step EXCEPT !.k = @ + 1]
          ELSE IF c.id \notin DOMAIN step.actions
          THEN /\ world' = world
               /\ obs' = [obs EXCEPT !.ev = Ev("no_action", c.id, 0, 0, 0),
                                     !.roll = NoRoll]
               /\ step' = [step EXCEPT !.k = @ + 1]
          ELSE \E r \in Turn(world, step.k, step.actions[c.id], step.random) :
                  /\ world' = r.w
                  /\ step' = IF r.raised THEN [StepIdle EXCEPT !.pc = "crashed"]
                             ELSE [step EXCEPT !.k = @ + 1,
                                               !.random = @ \/ r.imports]
                  /\ obs' = [obs EXCEPT !.ev = r.ev, !.roll = r.roll,
                                        !.gone = IF r.ev.kind = "eat"
                                                 THEN @ \cup {r.ev.other} ELSE @,
                                        !.taken = IF r.ev.kind = "eat"
                                                  THEN (r.ev.other :> c.id) @@ @ ELSE @,
                                        !.born = @ \cup (AllIds(r.w) \ AllIds(world))]
    /\ UNCHANGED <<ix, cb, game, env, llm>>

\* The game loop after a step (server.py 645-691): with the population
\* extinct it waits for a prompt while attempts remain, and ends the game
\* when none does.
max_attempts == 3
AfterStep(g, w) ==
    IF IsPopulationExtinct(w)
    THEN [g EXCEPT !.status = IF g.attempt_number < max_attempts
                              THEN "waiting" ELSE "over"]
    ELSE g

\* The end of update_cells and of step: the environment, the rebuild, the
\* respawn, the turn counter, and the evolution check every 5 turns; the
\* locals of step are gone when it returns. The game loop then looks at the
\* population.
FinishStep ==
    /\ step.pc = "resolve" /\ step.k > Len(world.cells)
    /\ \E st \in FinishUpdate(world, env) :
          /\ \E w \in IF st.w.turn % evolution_interval = 0
                      THEN CheckAndEvolveAll(st.w) ELSE {st.w} :
                /\ world' = w
                /\ game' = AfterStep(game, w)
          /\ env' = st.env
          /\ obs' = [obs EXCEPT
                       !.ev = Ev("tick", 0, 0, 0, 0), !.energy0 = EmptyDict,
                       !.pos0 = EmptyDict, !.taken = EmptyDict, !.roll = NoRoll,
                       !.gone = @ \cup (SeqIds(world.food) \ SeqIds(st.w.food)),
                       !.born = @ \cup (AllIds(st.w) \ AllIds(world))]
    /\ step' = [StepIdle EXCEPT !.left = step.left - 1]
    /\ UNCHANGED <<ix, cb, llm>>

---------------------------------------------------------------------------
(* The update_prompts endpoint during gameplay (server.py 532-561) and the *)
(* task it creates, _process_evolution_background (server.py 390-436).     *)
(* Both run on the event loop of the game loop: they get to run when the   *)
(* game loop is suspended, in an inference call of step or in the sleep    *)
(* between two steps.                                                      *)
(*   llm.merge  "none"     no request will come                            *)
(*              "ready"    a player may send one                           *)
(*              "pending"  the task is suspended in merge_traits           *)
(*              "done"     the task has applied the merged traits          *)

Suspended == {"idle", "await_batch", "await_single"}

\* What merge_traits can return after validation: colour, speed and diet.
MergedTraits == {[color |-> "red", speed |-> 5, diet |-> "carnivore"]}

\* apply_trait_evolution(creature, new_traits): the keys of new_traits
\* replace those of creature.traits, and colour, speed and diet are copied
\* to the attributes of the creature.
ApplyTraitEvolution(c, new_traits) ==
    [c EXCEPT !.traits = [@ EXCEPT !.color = new_traits.color,
                                   !.speed = new_traits.speed,
                                   !.diet = new_traits.diet],
              !.color = new_traits.color,
              !.speed2 = 2 * new_traits.speed,
              !.diet = new_traits.diet]

\* update_prompts with waiting_for_prompt off: the task is created and runs
\* up to its await of merge_traits.
UpdatePrompts ==
    /\ llm.merge = "ready" /\ step.pc \in Suspended
    /\ game.status = "running"
    /\ llm' = [llm EXCEPT !.merge = "pending"]
    /\ UNCHANGED <<ix, cb, game, world, env, step, obs>>

\* merge_traits returns: the merged traits are applied to the first living
\* creature of world.cells.
EvolutionBackground ==
    /\ llm.merge = "pending" /\ step.pc \in Suspended
    /\ \E merged_traits \in MergedTraits :
          LET Living(c) == c.alive
              n == FirstThat(world.cells, Living)
          IN world' = IF n = 0 THEN world
                      ELSE [world EXCEPT !.cells[n] = ApplyTraitEvolution(@, merged_traits)]
    /\ llm' = [llm EXCEPT !.merge = "done"]
    /\ UNCHANGED <<ix, cb, game, env, step, obs>>

\* get_stage_from_attempts
GetStageFromAttempts(total_attempts) ==
    IF total_attempts < 1000 THEN 1
    ELSE IF total_attempts < 2000 THEN 2
    ELSE 3

\* update_prompts with waiting_for_prompt on: _restart_attempt starts and
\* runs up to its await of merge_traits. A player can send game.prompts
\* more requests.
RestartBegin ==
    /\ game.status = "waiting" /\ game.prompts > 0
    /\ game' = [game EXCEPT !.prompts = @ - 1, !.restarts = @ + 1]
    /\ UNCHANGED <<ix, cb, world, env, step, llm, obs>>

\* merge_traits returns to a _restart_attempt: every creature of world.cells
\* is set alive with energy 50 and gets the merged traits; the attempt
\* counters go up; when the stage for the new total differs from the stage
\* of the game every creature gets that stage; waiting_for_prompt is
\* cleared. The task runs when the game loop is suspended.
restart_energy == 50
RestartAttempt ==
    /\ game.restarts > 0 /\ step.pc \in Suspended
    /\ game.status # "over"
    /\ LET total == game.total_attempts + 1
           new_stage == GetStageFromAttempts(total)
           Restaged(c) == IF new_stage # game.current_stage
                          THEN [c EXCEPT !.stage = new_stage] ELSE c
       IN /\ \E merged_traits \in MergedTraits :
                world' = [world EXCEPT !.cells =
                             [n \in 1..Len(@) |->
                                 Restaged(ApplyTraitEvolution(
                                     [@[n] EXCEPT !.alive = TRUE,
                                                  !.energy = restart_energy],
                                     merged_traits))]]
          /\ game' = [game EXCEPT !.restarts = @ - 1,
                                  !.attempt_number = @ + 1,
                                  !.total_attempts = total,
                                  !.current_stage = new_stage,
                                  !.status = "running"]
    /\ obs' = [obs EXCEPT !.ev = Ev("restart", 0, 0, 0, 0)]
    /\ UNCHANGED <<ix, cb, env, step, llm>>

---------------------------------------------------------------------------
(* Specification Spec: ticks of Simulation.step from a set of worlds.      *)

WorldSize == 8
MaxSteps == 2

\* A creature some turns into a game.
Creature(cls, creature_id, player_id, x, y, energy, age, speed, diet) ==
    [NewCreature(cls, creature_id, Traits("blue", speed, diet, NoVariation), x, y,
                 player_id, NoParts)
     EXCEPT !.energy = energy, !.age = age]

\* food_type_config: one lethal type, each type adding or removing energy.
Cfg ==
    [t \in FoodTypes |->
        [base_energy |-> 30, is_positive |-> t # "banana", is_lethal |-> t = "grapes"]]

\* The index as World.spawn_resources and World.add_cell fill it before the
\* first turn (food first), and as rebuild leaves it after a turn.
InitialGrid(cells, food) ==
    AddAll(EmptyGrid,
           [i \in 1..Len(food) |->
              [id |-> food[i].id, x |-> food[i].x, y |-> food[i].y, type |-> "food"]]
           \o [i \in 1..Len(cells) |->
              [id |-> cells[i].id, x |-> cells[i].x, y |-> cells[i].y, type |-> "creature"]],
           1)

MakeWorld(cells, food, turn) ==
    [WorldIdle EXCEPT !.cells = cells, !.food = food,
                      !.grid = IF turn = 0 THEN InitialGrid(cells, food)
                               ELSE Rebuild(cells, food),
                      !.rid = resource_id_start + Len(food),
                      !.turn = turn, !.width = WorldSize, !.height = WorldSize,
                      !.cfg = Cfg]

\* The environment after turn updates with the given weather.
MakeEnv(turn, weather) ==
    [EnvIdle EXCEPT !.weather = weather, !.turn_counter = turn,
                    !.weather_change_turn = (turn \div weather_interval) * weather_interval,
                    !.disaster_timer = turn % disaster_interval]

Seed(cells, food, turn, weather, texts, left) ==
    [w |-> MakeWorld(cells, food, turn), e |-> MakeEnv(turn, weather),
     texts |-> texts, left |-> left, merge |-> "none", game |-> GameIdle]

\* Two cells of different players side by side, the first one starving or
\* not; one food item out of sight.
SeedsRivals ==
    {Seed(<<Creature("Cell", 1, 1, 1, 1, e1, 0, 3, "herbivore"),
            Creature("Cell", 2, 2, 2, 1, 100, 0, 3, "omnivore")>>,
          <<Food(1000, 6, 6, "apple", 30)>>, 0, "clear",
          {Text({"FLEE", "LEFT"}, 0), Text({"ATTACK"}, 1), Text({"COOPERATE"}, 2),
           Text({}, 0)},
          1) : e1 \in {1, 40}}

\* Two cells of one player side by side, the one that is later in the list
\* short of the reproduction threshold or not; before them in the list a
\* third cell out of their sight.
SeedsPair ==
    {Seed(<<Creature("Cell", 3, 1, 6, 6, 60, 1, 3, "herbivore"),
            Creature("Cell", 1, 1, 1, 1, 100, 1, 3, "herbivore"),
            Creature("Cell", 2, 1, 2, 1, e2, 1, 3, "herbivore")>>,
          <<>>, 1, "clear",
          {Text({"COOPERATE"}, 2), Text({"REPRODUCE"}, 0), Text({"MIGRATE", "UP"}, 0)},
          1) : e2 \in {80, 90}}

\* A starving cell next to food: the nearest item and a second one a
\* diagonal step away, and a fed cell out of its sight.
SeedsHungry ==
    {Seed(<<Creature("Cell", 1, 1, 1, 1, 19, 0, 3, "herbivore"),
            Creature("Cell", 2, 1, 6, 6, 60, 0, 3, "herbivore")>>,
          <<Food(1000, 1, 2, t, 30), Food(1001, 2, 2, "apple", 28)>>, 0, "clear",
          {Text({"EAT"}, 1000), Text({"SIGNAL"}, 0)}, 1) : t \in {"apple", "grapes"}}

\* A starving cell alone next to food, for several turns; the service asks
\* for the food item of the first turn.
SeedsForager ==
    {Seed(<<Creature("Cell", 1, 1, 1, 1, 19, 1, 3, "herbivore")>>,
          <<Food(1000, 1, 2, "apple", 30)>>, 1, "clear",
          {Text({"EAT"}, 1000)}, MaxSteps)}

\* Five cells that all go to inference: two batches. The service answers
\* with lines that name no creature, or not at all.
SeedsCrowd ==
    {Seed(<<Creature("Cell", 1, 1, 0, 0, 50, 1, 3, "herbivore"),
            Creature("Cell", 2, 1, 7, 0, 50, 1, 3, "herbivore"),
            Creature("Cell", 3, 1, 0, 7, 50, 1, 3, "herbivore"),
            Creature("Cell", 4, 1, 7, 7, 50, 1, 3, "herbivore"),
            Creature("Cell", 5, 2, 4, 4, 50, 1, 3, "herbivore")>>,
          <<>>, 1, "clear", {}, 1)}

\* A game some turns old, one turn before a weather change (19, in a storm)
\* or a disaster (49); the second cell is nearly starved or not.
SeedsLate ==
    {Seed(<<Creature("Cell", 1, 1, 1, 1, 100, 11, 3, "carnivore"),
            Creature("Cell", 2, 1, 5, 5, e2, 3, 3, "herbivore")>>,
          <<Food(1000, 1, 2, "apple", 30), Food(1001, 6, 5, "banana", -30)>>,
          turn, IF turn = 19 THEN "storm" ELSE "clear",
          {Text({"SIGNAL"}, 0)}, 1) : turn \in {19, 49}, e2 \in {2, 31}}

\* One cell, old and fed enough to evolve, one turn before a predator spawn
\* and an evolution check.
SeedsHunt ==
    {Seed(<<Creature("Cell", 1, 1, 1, 1, 100, 11, 3, "carnivore")>>,
          <<Food(1000, 6, 5, "banana", -30)>>, 29, "clear",
          {Text({"SIGNAL"}, 0)}, 1)}

\* The turn after a predator spawn: the predator on its edge cell, its
\* first action stored by _update_predators.
SeedsPrey ==
    {LET prey == Creature("Cell", 1, 1, x, 1, 60, 3, 3, "herbivore")
         predator == [Creature("Cell", 1001, NoPlayer, 3, 0, predator_energy, 0,
                               predator_speed, "carnivore")
                      EXCEPT !.color = "red", !.traits.color = "red"]
         sd == Seed(<<prey, predator>>, <<Food(1000, 6, 5, "banana", -30)>>, 30, "clear",
                    {Text({"SIGNAL"}, 0)}, 1)
         w == [sd.w EXCEPT !.rid = 1002]
     IN [sd EXCEPT !.w = [w EXCEPT !.predator_actions =
                                      (1001 :> PredatorAction(w, predator)[1])],
                   !.e = [@ EXCEPT !.predators = <<1001>>]] : x \in {1, 3}}

\* Two cells of one player with one free cell between them, the first one
\* on its last energy or not; the service tells them to step left or right.
SeedsContest ==
    {Seed(<<Creature("Cell", 1, 1, 1, 1, e1, 1, 3, "herbivore"),
            Creature("Cell", 2, 1, 3, 1, 60, 1, 3, "herbivore")>>,
          <<>>, 1, "clear",
          {Text({"MOVE", "LEFT"}, 0), Text({"MOVE", "RIGHT"}, 0)}, 1) : e1 \in {1, 30}}

\* Two cells of one player in one region, the second one dead, on its last
\* energy or fed; the region is free or one of them has claimed it on an
\* earlier turn.
SeedsClaim ==
    {[Seed(<<Creature("Cell", 1, 1, 1, 1, 60, 1, 3, "herbivore"),
             [Creature("Cell", 2, 1, 3, 3, e2, 1, 3, "herbivore")
              EXCEPT !.alive = e2 > 0]>>,
           <<>>, 1, "clear", {Text({"CLAIM"}, 0), Text({"SIGNAL"}, 0)}, 1)
      EXCEPT !.w.territories = owned] :
        e2 \in {0, 1, 60},
        owned \in {EmptyDict, <<0, 0>> :> 1, <<0, 0>> :> 2}}

\* Two cells of one player apart from each other; a player sends an
\* evolution description while the game runs.
SeedsPrompted ==
    {[Seed(<<Creature("Cell", 1, 1, 1, 1, 60, 1, 3, "herbivore"),
             Creature("Cell", 2, 1, 6, 6, 60, 1, 3, "herbivore")>>,
           <<>>, 1, "clear", {Text({"MOVE", "RIGHT"}, 0)}, 1)
      EXCEPT !.merge = "ready"]}

\* Three creatures of one player in a corner of the world, the one in the
\* corner between the other two; the first of the list is short of the
\* reproduction threshold or not, and differs from the second in colour and
\* from the third, a Multicellular, in colour and diet.
SeedsTrio ==
    {Seed(<<[Creature("Cell", 1, 1, 1, 0, e1, 1, 3, "herbivore")
             EXCEPT !.color = "red", !.traits.color = "red"],
            Creature("Cell", 2, 1, 0, 0, 100, 1, 3, "herbivore"),
            Creature("Multicellular", 3, 1, 0, 1, 90, 1, 3, "omnivore")>>,
          <<>>, 1, "clear", {Text({"REPRODUCE"}, 0), Text({"MIGRATE", "UP"}, 0)}, 1) :
        e1 \in {80, 100}}

\* An Organism with a sharp mouth, nearly starved or well fed, between a
\* food item that adds energy and one that removes it.
SeedsFeast ==
    {Seed(<<[Creature("Organism", 1, 1, 1, 1, e1, 1, 3, "carnivore")
             EXCEPT !.parts = [mouth |-> "sharp", limbs |-> 3, sensors |-> 2,
                               defense |-> "none"]]>>,
          <<Food(1000, 1, 2, "apple", 30), Food(1001, 2, 1, "banana", -30)>>, 1, "clear",
          {Text({"EAT"}, 1000), Text({"EAT"}, 1001)}, 1) : e1 \in {20, 80}}

\* A cell on its last energy and out of sight of the only food item, two
\* turns to go, in the second attempt of its game; the server has seen one
\* attempt before this one, or 999 (of all its games). The players can send
\* MaxPrompts evolution descriptions once the game waits for one.
MaxPrompts == 2
SeedsLast ==
    {[Seed(<<Creature("Cell", 1, 1, 1, 1, 1, 1, 3, "herbivore")>>,
           <<Food(1000, 6, 6, "apple", 30)>>, 1, "clear", {Text({"SIGNAL"}, 0)}, 2)
      EXCEPT !.game = [GameIdle EXCEPT !.attempt_number = 2, !.prompts = MaxPrompts,
                                       !.total_attempts = total]] :
        total \in {1, 999}}

\* A starving cell next to one of the water items that start_game adds to
\* the world (server.py 182-183).
SeedsThirst ==
    {Seed(<<Creature("Cell", 1, 1, 1, 1, 15, 0, 3, "herbivore")>>,
          <<Food(1000, 1, 2, "water", 0)>>, 0, "clear", {}, 1)}

\* Two cells of different players side by side, the first one strong, the
\* second one weak enough to fall to one hit; the service names the second
\* as a target or tells to step right.
SeedsDuel ==
    {Seed(<<Creature("Cell", 1, 1, 1, 1, 100, 1, 3, "herbivore"),
            Creature("Cell", 2, 2, 2, 1, 22, 1, 3, "herbivore")>>,
          <<>>, 1, "clear",
          {Text({"ATTACK"}, 2), Text({"MOVE", "RIGHT"}, 0)}, 1)}

Seeds ==
    SeedsRivals \cup SeedsPair \cup SeedsHungry \cup SeedsForager \cup SeedsCrowd
    \cup SeedsLate \cup SeedsHunt \cup SeedsPrey \cup SeedsContest \cup SeedsClaim
    \cup SeedsPrompted \cup SeedsTrio \cup SeedsFeast
    \cup SeedsLast \cup SeedsThirst \cup SeedsDuel

Init ==
    /\ ix = IdxIdle /\ cb = CbIdle
    /\ \E sd \in Seeds :
          /\ world = sd.w
          /\ game = sd.game
          /\ env = sd.e
          /\ step = [StepIdle EXCEPT !.left = sd.left]
          /\ llm = [LlmIdle EXCEPT !.texts = sd.texts, !.merge = sd.merge]
    /\ obs = ObsIdle

Next ==
    \/ UpdatePrompts
    \/ EvolutionBackground
    \/ RestartBegin
    \/ RestartAttempt
    \/ StepBegin
    \/ IssueBatch
    \/ BatchReply
    \/ BatchTimeout
    \/ BatchError
    \/ IssueIndividual
    \/ IndividualReply
    \/ IndividualError
    \/ UpdateCellsBegin
    \/ ResolveOne
    \/ FinishStep

Spec == Init /\ [][Next]_vars

\* C1: after any sequence of ticks every agent of the population list,
\* living or dead, has an energy between 0 and 100.
C1_EnergyInRange ==
    \A k \in 1..Len(world.cells) :
        world.cells[k].energy >= 0 /\ world.cells[k].energy <= MaxEnergy

DecisionPcs == {"batch", "await_batch", "fallback", "await_single"}

\* C3: when a batch inference call runs out of time, every agent of the
\* batch gets the action the rule engine computes for it, and no further
\* inference call is issued for these agents in the tick.
C3_TimeoutFallsBackToRules ==
    \A id \in obs.timed_out :
        /\ obs.issued[id] <= 1
        /\ id \in DOMAIN step.actions =>
              LET en == step.normal[FirstWithId(step.normal, id)]
              IN step.actions[id] \in RuleBasedDecision(world.cells[en.k], en.ws)

\* C4: the calls of all batches of a tick are in flight together: once a
\* batch call has returned or run out of time the calls of all later batches
\* have been issued, and a tick waits for at most one timeout period.
C4_BatchesInFlightTogether ==
    /\ obs.waited <= 1
    /\ (step.pc \in DecisionPcs /\ (step.i > 0 \/ step.pc \in {"fallback", "await_single"}))
          => \A id \in DOMAIN obs.issued : obs.issued[id] >= 1

ActionNames ==
    {"move", "eat", "flee", "attack", "reproduce", "signal", "claim", "cooperate",
     "migrate"}

\* C5: whatever the outcome of the inference calls, decide_batch returns
\* a dict with exactly the ids of the batch as keys, each with one action of
\* the known kinds.
C5_OneActionPerBatchAgent ==
    \A n \in 1..Len(obs.returned) :
        LET r == obs.returned[n]
        IN /\ DOMAIN r.acts = r.ids
           /\ \A id \in r.ids : r.acts[id].action \in ActionNames
           /\ \A id \in r.ids : id \in DOMAIN step.actions /\ step.actions[id] = r.acts[id]

\* A batch of two whose answer names an id outside the batch and leaves out
\* an id of the batch; and a batch that was decided by the individual calls.
C5_Witness ==
    /\ Len(obs.returned) = 1
    /\ obs.returned[1].how = "reply"
    /\ Cardinality(obs.returned[1].ids) >= 2
    /\ obs.returned[1].foreign
    /\ obs.returned[1].missing

\* C6: while update_cells applies the actions of a tick no inference call
\* of the tick is pending, and no step of the decision phase changes the
\* world.
C6_ResolutionAfterDecisions ==
    /\ [](step.pc = "resolve" => llm.calls = {})
    /\ [][step'.pc \in DecisionPcs => world' = world]_vars

\* update_cells has applied an action of a tick whose agents went to
\* inference.
C6_Witness ==
    /\ step.pc = "resolve" /\ step.k > 1
    /\ Len(step.normal) >= 2
    /\ obs.ev.kind \in {"attack", "kill", "flee", "move", "cooperate", "reproduce"}

\* C7 as stated: an offspring is added only if the acting agent and its
\* partner both had 88 energy when the actions of the tick were decided.
C7_ReproduceNeeds88AtDecision ==
    obs.ev.kind = "reproduce" =>
        /\ obs.energy0[obs.ev.actor] >= reproduce_min_energy
        /\ obs.energy0[obs.ev.other] >= reproduce_min_energy

\* C7: an offspring is added only if the acting agent and its partner both
\* have 88 energy when the action is executed.
C7_ReproduceNeeds88AtExecution ==
    [][(step.pc = "resolve" /\ obs'.ev.kind = "reproduce") =>
          /\ world.cells[step.k].id = obs'.ev.actor
          /\ world.cells[step.k].energy >= reproduce_min_energy
          /\ world.cells[FirstWithId(world.cells, obs'.ev.other)].energy
                >= reproduce_min_energy]_vars

\* An agent that was below 88 when the tick was decided has reproduced.
C7_Witness ==
    /\ obs.ev.kind = "reproduce"
    /\ obs.energy0[obs.ev.actor] < reproduce_min_energy
    /\ obs.ev.made \in SeqIds(world.cells)

\* C8: the id of a resource that was eaten or washed away by a flood is in
\* no later food list, index or neighbourhood, and nothing created later
\* gets it.
C8_GoneIdsNeverReturn ==
    /\ [](/\ obs.gone \cap AllIds(world) = {}
          /\ obs.gone \cap {o.id : o \in IndexEntries(world.grid)} = {}
          /\ \A k \in 1..Len(world.cells) :
                obs.gone \cap SeqIds(NearbyFood(world, world.cells[k])) = {}
          /\ \A id \in obs.gone : id < world.rid)
    /\ [][(AllIds(world') \ AllIds(world)) \cap obs.gone = {}]_vars

\* Food has gone and something made after it is in the world.
C8_Witness ==
    \E g \in obs.gone : \E b \in obs.born : b > g /\ b \in AllIds(world)

\* C10 as stated: a living agent below 20 energy with a non-lethal resource
\* of positive value within 1.5 of it is not sent to inference and gets the
\* action eat on that resource.
C10_HungryEatsAdjacentFood ==
    step.pc \in DecisionPcs =>
        \A k \in 1..Len(world.cells) : \A n \in 1..Len(world.food) :
            LET c == world.cells[k]
                f == world.food[n]
            IN (/\ c.alive /\ c.energy < 20
                /\ 4 * Dist2(c.x, c.y, f.x, f.y) <= 9
                /\ ~IsLethal(world, f.type) /\ f.energy_value > 0)
               => /\ c.id \notin DOMAIN obs.issued
                  /\ step.actions[c.id] = Act("eat", <<0, 0>>, f.id)

\* The entries of the tick's living agents that were below 20 energy with
\* food as nearest resource within 1.5.
HungryNearFood ==
    {en \in Range(step.critical) \cup Range(step.normal) :
        /\ obs.energy0[en.id] < 20
        /\ en.ws.food # <<>> /\ en.ws.food[1].d2 <= 2
        /\ en.ws.food[1].type \notin {"water", "shelter"}}

\* C10: a living agent below 20 energy whose nearest resource is food within
\* 1.5 is critical, is not sent to inference and gets the action eat on that
\* nearest resource; when its turn comes and it eats it (it is alive, the
\* resource is there, not lethal and of positive value, access is granted)
\* its energy goes to min(100, energy + value), the value with the
\* sharp-mouth bonus of a stage-3 agent.
C10_HungryEatsNearestFood ==
    /\ [](step.pc \in DecisionPcs =>
            \A en \in HungryNearFood :
               /\ en \in Range(step.critical)
               /\ en.id \notin DOMAIN obs.issued
               /\ step.actions[en.id] = Act("eat", <<0, 0>>, en.ws.food[1].id))
    /\ [][(step.pc = "resolve" /\ step.k <= Len(world.cells)) =>
            \A en \in HungryNearFood :
               LET c == world.cells[step.k]
                   n == FirstWithId(world.food, en.ws.food[1].id)
               IN (/\ en.k = step.k /\ c.alive /\ n # 0
                   /\ ~IsLethal(world, world.food[n].type)
                   /\ world.food[n].energy_value > 0
                   /\ obs'.ev.kind = "eat")
                  => /\ obs'.ev.other = world.food[n].id
                     /\ world'.cells[step.k].energy
                           = Min(MaxEnergy, c.energy + EatValue(c, world.food[n]))]_vars

\* The starving agent has eaten the food next to it and has its value more.
C10_Witness ==
    /\ obs.ev.kind = "eat" /\ obs.ev.amount > 0
    /\ obs.ev.actor \in DOMAIN obs.energy0
    /\ obs.energy0[obs.ev.actor] < 20
    /\ world.cells[FirstWithId(world.cells, obs.ev.actor)].energy
          = Min(MaxEnergy, obs.energy0[obs.ev.actor] + obs.ev.amount)

\* The iteration of update_cells that is about to run is the turn of a
\* living agent whose action is of the given kind.
TurnOf(kind) ==
    /\ step.pc = "resolve" /\ step.k <= Len(world.cells)
    /\ world.cells[step.k].alive
    /\ world.cells[step.k].id \in DOMAIN step.actions
    /\ step.actions[world.cells[step.k].id].action = kind

\* The agents other than the acting one whose energy or alive flag the
\* iteration changes.
Touched ==
    {n \in 1..Len(world.cells) :
        /\ n # step.k
        /\ \/ world'.cells[n].energy # world.cells[n].energy
           \/ world'.cells[n].alive # world.cells[n].alive}

\* C12: an attack action changes the energy or the alive flag of another
\* agent only if, when it is executed, attacker and defender are alive, have
\* different ids and owners, the attacker has 50 energy and they are within
\* 1.5 of each other; otherwise no agent's energy changes and the failed
\* attack is recorded as an event.
C12_AttackOnlyWhenAllowed ==
    [][TurnOf("attack") =>
          LET a == world.cells[step.k]
          IN /\ Len(world'.cells) = Len(world.cells)
             /\ \A n \in Touched :
                   LET d == world.cells[n]
                   IN /\ a.alive /\ d.alive
                      /\ a.id # d.id /\ a.player_id # d.player_id
                      /\ a.energy >= 50
                      /\ 4 * Dist2(a.x, a.y, d.x, d.y) <= 9
                      /\ obs'.ev.kind \in {"attack", "kill"}
                      /\ obs'.ev.other = d.id
             /\ Touched = {} =>
                   /\ obs'.ev.kind = "attack_failed" /\ obs'.ev.actor = a.id
                   /\ \A n \in 1..Len(world.cells) :
                         world'.cells[n].energy = world.cells[n].energy]_vars

\* An attack has taken energy from a living defender of another owner.
C12_Witness ==
    /\ obs.ev.kind = "attack"
    /\ obs.ev.other \in DOMAIN obs.energy0
    /\ LET d == world.cells[FirstWithId(world.cells, obs.ev.other)]
       IN d.alive /\ d.energy = obs.energy0[d.id] - obs.ev.amount

\* C13: the iteration of update_cells for an agent that is alive when the
\* loop reaches it raises its age by exactly 1, whatever its action (or the
\* lack of one) and whatever comes of it.
C13_EveryLivingAgentAges ==
    [][(/\ step.pc = "resolve" /\ step.k <= Len(world.cells)
        /\ world.cells[step.k].alive)
          => world'.cells[step.k].age = world.cells[step.k].age + 1]_vars

\* The cell a move of the agent with this id was aimed at when the tick
\* began, and whether no living agent was on a cell then.
Aim(id) ==
    <<ClampX(world, obs.pos0[id][1] + step.actions[id].direction[1]),
      ClampY(world, obs.pos0[id][2] + step.actions[id].direction[2])>>
FreeAtStart(q) == \A id \in DOMAIN obs.pos0 : obs.pos0[id] # q

\* The iteration leaves the acting agent's position and energy as they were.
ActorUntouched ==
    /\ world'.cells[step.k].x = world.cells[step.k].x
    /\ world'.cells[step.k].y = world.cells[step.k].y
    /\ world'.cells[step.k].energy = world.cells[step.k].energy

\* The agents earlier in the population list that chose, like the acting
\* agent, to move into the same cell that was free when the tick began, or
\* to eat the same resource that was there when the tick began.
Decided(n) ==
    /\ world.cells[n].id \in DOMAIN obs.pos0
    /\ world.cells[n].id \in DOMAIN step.actions
EarlierForSameCell ==
    {j \in 1..(step.k - 1) :
        /\ Decided(j) /\ Decided(step.k)
        /\ step.actions[world.cells[j].id].action = "move"
        /\ Aim(world.cells[j].id) = Aim(world.cells[step.k].id)
        /\ FreeAtStart(Aim(world.cells[j].id))}
EarlierForSameFood ==
    {j \in 1..(step.k - 1) :
        /\ Decided(j) /\ Decided(step.k)
        /\ step.actions[world.cells[j].id].action = "eat"
        /\ step.actions[world.cells[j].id].target_id # NoTarget
        /\ step.actions[world.cells[j].id].target_id
              = step.actions[world.cells[step.k].id].target_id
        /\ step.actions[world.cells[j].id].target_id
              \in SeqIds(world.food) \cup DOMAIN obs.taken}

\* C15 as stated: a move into a cell where another living agent is changes
\* neither position nor energy of the mover; of two agents that chose to
\* move into the same free cell, or to eat the same resource, the earlier
\* one in the population list has it and the later one's action changes
\* neither its position nor its energy.
C15_FirstInListWins ==
    [][(TurnOf("move") \/ TurnOf("eat")) =>
          LET c == world.cells[step.k]
              a == step.actions[c.id]
          IN /\ (/\ a.action = "move"
                 /\ Collision(world, c, ClampX(world, c.x + a.direction[1]),
                              ClampY(world, c.y + a.direction[2])))
                   => ActorUntouched
             /\ a.action = "move" =>
                   \A j \in EarlierForSameCell :
                      /\ <<world.cells[j].x, world.cells[j].y>> = Aim(c.id)
                      /\ ActorUntouched
             /\ a.action = "eat" =>
                   \A j \in EarlierForSameFood :
                      /\ a.target_id \in DOMAIN obs.taken
                      /\ obs.taken[a.target_id] = world.cells[j].id
                      /\ ActorUntouched]_vars

\* C15: a move into a cell where another living agent is changes neither
\* position nor energy of the mover, and a move into a cell where none is
\* takes the mover there; so of two agents that chose to move into the same
\* free cell the later one is left as it was whenever the earlier one is
\* alive on that cell at the later one's turn. An eat on a resource that is
\* there and is granted removes it, and an eat on a resource that an earlier
\* agent has eaten in the tick changes neither position nor energy.
C15_FirstInListWinsWhenCarriedOut ==
    [][(TurnOf("move") \/ TurnOf("eat")) =>
          LET c == world.cells[step.k]
              a == step.actions[c.id]
              new_x == ClampX(world, c.x + a.direction[1])
              new_y == ClampY(world, c.y + a.direction[2])
              occupied == \E n \in 1..Len(world.cells) :
                             /\ n # step.k /\ world.cells[n].alive
                             /\ world.cells[n].x = new_x /\ world.cells[n].y = new_y
          IN /\ (a.action = "move" /\ occupied) => ActorUntouched
             /\ (a.action = "move" /\ ~occupied) =>
                   /\ world'.cells[step.k].x = new_x /\ world'.cells[step.k].y = new_y
                   /\ world'.cells[step.k].energy = c.energy - move_cost
             /\ a.action = "move" =>
                   \A j \in EarlierForSameCell :
                      (/\ world.cells[j].alive
                       /\ <<world.cells[j].x, world.cells[j].y>> = Aim(c.id))
                         => ActorUntouched
             /\ (a.action = "eat" /\ obs'.ev.kind = "eat") =>
                   /\ obs'.ev.other \notin SeqIds(world'.food)
                   /\ obs'.taken[obs'.ev.other] = c.id
             /\ a.action = "eat" =>
                   \A j \in EarlierForSameFood :
                      (/\ a.target_id \in DOMAIN obs.taken
                       /\ obs.taken[a.target_id] = world.cells[j].id)
                         => ActorUntouched]_vars

\* The first agent has stepped into the free cell and the second one, told
\* to step into it too, was refused and is where it was with the energy it
\* had.
C15_Witness ==
    /\ obs.ev.kind = "blocked" /\ obs.ev.actor = 2
    /\ step.pc = "resolve"
    /\ 1 \in DOMAIN step.actions /\ step.actions[1].action = "move"
    /\ Aim(1) = Aim(2) /\ FreeAtStart(Aim(1))
    /\ <<world.cells[1].x, world.cells[1].y>> = Aim(1)
    /\ <<world.cells[2].x, world.cells[2].y>> = obs.pos0[2]
    /\ world.cells[2].energy = obs.energy0[2]

\* C14: when a tick is over no agent is alive with an energy of 0 or less.
C14_NoLivingAgentWithoutEnergy ==
    step.pc = "idle" =>
        \A k \in 1..Len(world.cells) :
            world.cells[k].alive => world.cells[k].energy > 0

\* The state of the world that actions act on is the same before and after
\* the iteration: the agents but for the age of the acting one, the food,
\* the index, the regions.
NoOpOnWorld ==
    /\ world'.food = world.food /\ world'.grid = world.grid
    /\ world'.territories = world.territories
    /\ Len(world'.cells) = Len(world.cells)
    /\ \A k \in 1..Len(world.cells) :
          [world'.cells[k] EXCEPT !.age = 0] = [world.cells[k] EXCEPT !.age = 0]

\* The outcomes of an action whose target is not valid: the item to eat is
\* in no food list any more, no living partner is adjacent, the region has a
\* living owner.
InvalidTarget(ev) ==
    \/ ev.kind = "eat_nothing" /\ ev.other \in obs.gone
    \/ ev.kind = "reproduce_alone"
    \/ ev.kind = "claim_refused"

\* C16: an eat whose item was already eaten, a reproduce without a living
\* adjacent partner and a claim on a region with a living owner raise
\* nothing, leave the world as it is and append an event record.
C16_InvalidTargetIsRecordedNoOp ==
    [][(step.pc = "resolve" /\ step'.pc # "idle" /\ InvalidTarget(obs'.ev))
       => (step'.pc # "crashed" /\ NoOpOnWorld /\ EventAppended(obs'.ev))]_vars

\* The region of the cell the acting agent stands on, and the living agent
\* that owns it, if any.
RegionOf(c) == <<c.x \div region_size, c.y \div region_size>>
LivingOwner(key) ==
    IF key \in DOMAIN world.territories
    THEN {k \in 1..Len(world.cells) :
             /\ world.cells[k].id = world.territories[key] /\ world.cells[k].alive}
    ELSE {}

\* C17: a claim on the region of the claimer's position is refused and
\* leaves the owner as it is when the region is owned by another agent that
\* is alive; otherwise it succeeds and the claimer is the owner. A region
\* has one owner at most: the owners are a function of the region.
C17_ClaimOnlyWithoutLivingOwner ==
    /\ [](\A key \in DOMAIN world.territories :
             /\ key \in (0..(world.width \div region_size)) \X
                        (0..(world.height \div region_size))
             /\ world.territories[key] \in SeqIds(world.cells))
    /\ [][TurnOf("claim") =>
            LET c == world.cells[step.k]
                key == RegionOf(c)
                defended == \E k \in LivingOwner(key) : world.cells[k].id # c.id
            IN IF defended
               THEN /\ obs'.ev.kind = "claim_refused"
                    /\ world'.territories = world.territories
               ELSE /\ obs'.ev.kind = "claim"
                    /\ key \in DOMAIN world'.territories
                    /\ world'.territories[key] = c.id
                    /\ \A other \in DOMAIN world.territories \ {key} :
                          /\ other \in DOMAIN world'.territories
                          /\ world'.territories[other] = world.territories[other]]_vars

\* A claim has taken a region over from its dead owner.
C17_Witness ==
    /\ obs.ev.kind = "claim" /\ obs.ev.actor = 1 /\ obs.ev.other = 2
    /\ ~world.cells[2].alive
    /\ world.territories[<<0, 0>>] = 1

\* Every agent of the population list of w is on a cell of w.
InBounds(w) ==
    \A k \in 1..Len(w.cells) :
        /\ 0 <= w.cells[k].x /\ w.cells[k].x < w.width
        /\ 0 <= w.cells[k].y /\ w.cells[k].y < w.height

\* C18: every agent's position is inside the world after every operation:
\* after each move, flee, migrate, offspring spawn and predator spawn of a
\* tick, and after scale_world_for_stage(world, 3) applied to the world as
\* it is at any moment.
C18_EveryAgentInsideTheWorld ==
    /\ InBounds(world)
    /\ InBounds(ScaleWorld(world))
    /\ world.width > 0 => ScaleWorld(world).width = stage3_world_size

\* An agent on the last column was told to step off the world and is still
\* on the last column, the cost of the step paid.
C18_Witness ==
    /\ obs.ev.kind \in {"move", "flee", "migrate_random"}
    /\ \E k \in 1..Len(world.cells) :
          /\ world.cells[k].id = obs.ev.actor
          /\ obs.pos0[obs.ev.actor] = <<world.width - 1, world.cells[k].y>>
          /\ world.cells[k].x = world.width - 1
          /\ world.cells[k].energy < obs.energy0[obs.ev.actor]

\* C19: while a tick is in its decision phase, suspended in an inference
\* call or not, no agent's traits, energy or alive flag change: only the
\* resolver, the environment and the evolution check of the tick, which run
\* after the decision phase, change them.
C19_OnlyTheTickMutatesDuringATick ==
    [][step.pc \in DecisionPcs =>
          /\ Len(world'.cells) = Len(world.cells)
          /\ \A k \in 1..Len(world.cells) :
                /\ world'.cells[k].traits = world.cells[k].traits
                /\ world'.cells[k].speed2 = world.cells[k].speed2
                /\ world'.cells[k].diet = world.cells[k].diet
                /\ world'.cells[k].color = world.cells[k].color
                /\ world'.cells[k].energy = world.cells[k].energy
                /\ world'.cells[k].alive = world.cells[k].alive]_vars

\* The living agents other than c on its cell or a cell next to it that
\* have the energy to reproduce.
QualifiedPartners(c) ==
    {n \in 1..Len(world.cells) :
        /\ world.cells[n].id # c.id /\ world.cells[n].alive
        /\ Abs(world.cells[n].x - c.x) <= 1 /\ Abs(world.cells[n].y - c.y) <= 1
        /\ world.cells[n].energy >= reproduce_min_energy}

\* C21: a reproduce action of an agent that has the energy for it gets as
\* far as the compatibility roll, with a partner of energy 88 or more,
\* whenever such an agent is on the same or a neighbouring cell; it ends for
\* lack of a partner only when there is none.
C21_QualifiedPartnerIsChosen ==
    [][(TurnOf("reproduce") /\ world.cells[step.k].energy >= reproduce_min_energy)
       => LET c == world.cells[step.k]
          IN IF QualifiedPartners(c) # {}
             THEN /\ obs'.ev.kind \in {"reproduce_raised", "incompatible", "reproduce",
                                       "no_space"}
                  /\ \E n \in QualifiedPartners(c) : world.cells[n].id = obs'.ev.other
             ELSE obs'.ev.kind \in {"reproduce_alone", "reproduce_partner_low"}]_vars

\* C22: when the actor and the partner have the energy to reproduce, a roll
\* is drawn; the compatibility is 0.7, plus 0.1 for equal colours, plus 0.1
\* for equal diets, and the attempt ends, with an event and nothing changed,
\* exactly when the roll is greater than it.
C22_FailsExactlyAboveCompatibility ==
    [][(/\ TurnOf("reproduce")
        /\ obs'.ev.kind \in {"reproduce_raised", "incompatible", "reproduce", "no_space"})
       => LET c == world.cells[step.k]
              partner == CHOOSE o \in Range(world.cells) : o.id = obs'.ev.other
              compatibility == 70 + (IF c.color = partner.color THEN 10 ELSE 0)
                                  + (IF c.diet = partner.diet THEN 10 ELSE 0)
          IN /\ c.energy >= reproduce_min_energy
             /\ partner.energy >= reproduce_min_energy
             /\ obs'.roll # NoRoll /\ step'.pc # "crashed"
             /\ obs'.ev.kind = "incompatible" <=> obs'.roll > compatibility
             /\ obs'.ev.kind = "incompatible" =>
                   world' = world /\ EventAppended(obs'.ev)]_vars

\* The cells a step along one cardinal offset from (x, y) leads to, after
\* clamping to the world, that no living agent is on.
FreeCardinals(x, y) ==
    {q \in {<<ClampX(world, x + d[1]), ClampY(world, y + d[2])>> : d \in Cardinals} :
        ~\E m \in 1..Len(world.cells) :
            /\ world.cells[m].alive
            /\ world.cells[m].x = q[1] /\ world.cells[m].y = q[2]}

\* C23: a successful reproduction appends one offspring, on a cell next to
\* the actor along one axis, inside the world and with no living agent on
\* it; the offspring has an id nothing has or had, the stage and owner of
\* the actor and, without strength variation, energy 50; actor and partner
\* pay max(40, 50 - 5 * (stage - 1)) each and nobody else's energy changes.
\* When none of the four cells is free no offspring is made and no energy
\* changes.
C23_OneOffspringOnAFreeCell ==
    [][TurnOf("reproduce") =>
          LET c == world.cells[step.k]
              n == Len(world.cells)
              cost == IF c.stage = 1 THEN 50 ELSE IF c.stage = 2 THEN 45 ELSE 40
          IN /\ obs'.ev.kind = "reproduce" =>
                   /\ Len(world'.cells) = n + 1
                   /\ LET child == world'.cells[n + 1]
                      IN /\ child.id = obs'.ev.made
                         /\ child.id \notin AllIds(world) \cup obs.gone \cup obs.born
                         /\ <<child.x, child.y>> \in FreeCardinals(c.x, c.y)
                         /\ Abs(child.x - c.x) + Abs(child.y - c.y) = 1
                         /\ child.stage = c.stage /\ child.player_id = c.player_id
                         /\ child.alive
                         /\ ~c.traits.variation.strength => child.energy = 50
                   /\ \A k \in 1..n :
                         world'.cells[k].energy =
                            IF world.cells[k].id \in {c.id, obs'.ev.other}
                            THEN world.cells[k].energy - cost
                            ELSE world.cells[k].energy
             /\ obs'.ev.kind = "no_space" =>
                   /\ FreeCardinals(c.x, c.y) = {}
                   /\ Len(world'.cells) = n
                   /\ \A k \in 1..n : world'.cells[k].energy = world.cells[k].energy
             /\ obs'.ev.kind # "reproduce" => Len(world'.cells) = n]_vars

\* A stage-2 actor of energy 90 has reproduced: it has 45 left and its
\* offspring, a stage-2 creature of energy 50, is the last of the list.
C23_Witness ==
    /\ obs.ev.kind = "reproduce" /\ obs.ev.actor = 3
    /\ obs.energy0[3] = 90
    /\ \E k \in 1..Len(world.cells) :
          /\ world.cells[k].id = 3 /\ world.cells[k].stage = 2
          /\ world.cells[k].energy = 45
    /\ world.cells[Len(world.cells)].id = obs.ev.made
    /\ world.cells[Len(world.cells)].stage = 2
    /\ world.cells[Len(world.cells)].energy = 50

\* The eater's turn has consumed the resource f: f is in neither the food
\* list nor the index afterwards, and the eater is dead without energy if f
\* is lethal and has the energy the value v of f prescribes if not.
Consumed(f, v) ==
    LET c == world.cells[step.k]
        after == world'.cells[step.k]
    IN /\ f.id \notin SeqIds(world'.food)
       /\ f.id \notin {o.id : o \in IndexEntries(world'.grid)}
       /\ Len(world'.food) = Len(world.food) - 1
       /\ IF f.type \in DOMAIN world.cfg /\ world.cfg[f.type].is_lethal
          THEN after.energy = 0 /\ ~after.alive
          ELSE after.energy = Min(100, Max(0, c.energy + v))

\* C24 as stated: the eaten resource leaves the food list and the index in
\* the eater's turn; a lethal one leaves the eater dead with energy 0, any
\* other leaves it with clamp(e + delta, 0, 100), delta the resource's own
\* energy value.
C24_EatAppliesTheDelta ==
    [][(TurnOf("eat") /\ obs'.ev.kind = "eat") =>
          \E n \in 1..Len(world.food) :
             /\ world.food[n].id = obs'.ev.other
             /\ Consumed(world.food[n], world.food[n].energy_value)]_vars

\* C24: the eaten resource leaves the food list and the index in the
\* eater's turn; a lethal one leaves the eater dead with energy 0, any other
\* leaves it with clamp(e + delta, 0, 100), where a positive delta counts
\* 1.33 times, rounded down, for a stage-3 eater with a sharp mouth.
C24_EatAppliesTheDeltaWithBonus ==
    [][(TurnOf("eat") /\ obs'.ev.kind = "eat") =>
          \E n \in 1..Len(world.food) :
             LET f == world.food[n]
                 c == world.cells[step.k]
                 sharp == c.stage = 3 /\ c.parts.mouth = "sharp"
             IN /\ f.id = obs'.ev.other
                /\ Consumed(f, IF sharp /\ f.energy_value > 0
                               THEN (133 * f.energy_value) \div 100
                               ELSE f.energy_value)]_vars

\* A sharp-mouthed stage-3 eater of energy 20 has eaten food worth 30 and
\* has 59, or has eaten food worth -30 and is left with 0.
C24_Witness ==
    /\ obs.ev.kind = "eat" /\ obs.ev.actor = 1
    /\ Len(world.cells) = 1 /\ world.cells[1].stage = 3
    /\ obs.energy0[1] = 20
    /\ \/ world.cells[1].energy = 59 /\ obs.ev.other = 1000
       \/ world.cells[1].energy = 0 /\ obs.ev.other = 1001

\* The regions whose registered owner is an agent of w that is not alive.
RegionsOfTheDead(w) ==
    {key \in DOMAIN w.territories :
        \E k \in 1..Len(w.cells) :
            w.cells[k].id = w.territories[key] /\ ~w.cells[k].alive}

\* C25: a region is released when its owner dies, so the step in which an
\* owner dies leaves none of its regions registered to it, and when a tick
\* is over no region is registered to a dead agent.
C25_TerritoryOfTheDeadIsReleased ==
    /\ [][\A k \in 1..Len(world.cells) :
             (world.cells[k].alive /\ ~world'.cells[k].alive) =>
                 \A key \in DOMAIN world'.territories :
                     world'.territories[key] # world.cells[k].id]_vars
    /\ [][(step.pc = "resolve" /\ step'.pc = "idle") =>
             RegionsOfTheDead(world') = {}]_vars

\* C26: a cooperate action hands energy to a living agent other than the
\* actor and of the actor's owner only: the actor loses
\* s = min(10, floor(e / 4)), the recipient has min(100, r + s) and nobody
\* else's energy changes; when there is no such ally no energy changes.
C26_CooperateOnlyWithAnAlly ==
    [][TurnOf("cooperate") =>
          LET c == world.cells[step.k]
              s == Min(10, c.energy \div 4)
              Same(k) == world'.cells[k].energy = world.cells[k].energy
          IN IF obs'.ev.kind = "cooperate"
             THEN \E n \in 1..Len(world.cells) :
                     /\ world.cells[n].id = obs'.ev.other
                     /\ n # step.k /\ world.cells[n].alive
                     /\ world.cells[n].player_id = c.player_id
                     /\ world'.cells[step.k].energy = c.energy - s
                     /\ world'.cells[n].energy = Min(100, world.cells[n].energy + s)
                     /\ \A k \in 1..Len(world.cells) \ {n, step.k} : Same(k)
             ELSE \A k \in 1..Len(world.cells) : Same(k)]_vars

\* The entries an index of w should hold: one for every living agent at its
\* position and one for every resource.
EntriesOf(w) ==
    {[id |-> w.cells[k].id, x |-> w.cells[k].x, y |-> w.cells[k].y, type |-> "creature"] :
        k \in {n \in 1..Len(w.cells) : w.cells[n].alive}}
    \cup {[id |-> w.food[n].id, x |-> w.food[n].x, y |-> w.food[n].y, type |-> "food"] :
             n \in 1..Len(w.food)}

\* Every entry is once in the index, in the bucket of its position.
IndexExact(w) ==
    /\ IndexEntries(w.grid) = EntriesOf(w)
    /\ \A key \in DOMAIN w.grid :
          /\ \A i \in 1..Len(w.grid[key]) :
                GetGridCoords(w.grid[key][i].x, w.grid[key][i].y) = key
          /\ \A i, j \in 1..Len(w.grid[key]) : w.grid[key][i] = w.grid[key][j] => i = j

\* C27: when the decision phase of a tick starts, the index holds exactly
\* the living agents at their positions and exactly the resources of the
\* world, whatever ticks, evolution checks and restarts came before.
C27_IndexExactAtDecision ==
    [][(step.pc = "idle" /\ step'.pc = "batch") => IndexExact(world)]_vars

\* What a weather takes from a living agent in one update.
WeatherLoss(weather) ==
    CASE weather = "storm" -> 1
      [] weather = "heat_wave" -> 2
      [] weather = "cold_snap" -> 1
      [] OTHER -> 0

\* C28: an environment update takes 1 (storm), 2 (heat wave) or 1 (cold
\* snap) from the energy of every living agent, not below 0, and nothing
\* from a dead one; clear weather and fog take nothing. The weather changes
\* only on the update that is 20 updates after the previous change. (The
\* energies are compared on updates without a running disaster, for the
\* agents the evolution check leaves as they are.)
C28_WeatherDrainsTheLiving ==
    /\ [][(/\ step.pc = "resolve" /\ step'.pc = "idle"
           /\ env.active_disasters = <<>> /\ env'.active_disasters = <<>>) =>
             \A k \in 1..Len(world.cells) :
                world'.cells[k].cls = world.cells[k].cls =>
                   world'.cells[k].energy =
                      IF world.cells[k].alive
                      THEN Max(0, world.cells[k].energy - WeatherLoss(env'.weather))
                      ELSE world.cells[k].energy]_vars
    /\ [][(env'.weather # env.weather
           \/ env'.weather_change_turn # env.weather_change_turn) =>
             /\ env'.turn_counter = env.weather_change_turn + 20
             /\ env'.weather_change_turn = env'.turn_counter]_vars

\* The twentieth update has changed the weather to a heat wave, which has
\* taken the last of the energy of a living agent that had less than 2.
C28_Witness ==
    /\ obs.ev.kind = "tick"
    /\ env.weather = "heat_wave"
    /\ env.turn_counter = 20 /\ env.weather_change_turn = 20
    /\ \E k \in 1..Len(world.cells) :
          /\ world.cells[k].alive /\ world.cells[k].id = 2
          /\ world.cells[k].energy = 0

\* C30: when the rule engine decides for an agent with energy >= 50, no
\* resource within 1.5 of it and its nearest other agent within 1.5, the
\* action is attack on that agent, whatever the diet of the agent and the
\* energy of the other. (An individual inference call ends with the parsed
\* answer or, when it raises, with the action of the rule engine.)
C30_FedAgentAttacksItsNeighbour ==
    [][(step.pc = "await_single" /\ step'.pc # "await_single") =>
          LET en == Batch(step.normal, step.i)[step.j]
              c == world.cells[en.k]
              food == en.ws.food
              enemy == en.ws.enemy
              action == IF step'.pc = "batch" THEN step'.actions[en.id]
                        ELSE step'.batch_actions[en.id]
          IN (/\ food = <<>> \/ food[1].d2 > 2
              /\ c.energy >= 50
              /\ enemy # <<>> /\ enemy[1].d2 <= 2)
             => \/ action = Act("attack", <<0, 0>>, enemy[1].id)
                \/ \E response \in llm.texts : action \in Parse(response)]_vars

\* C31: the stage of an agent changes only in the evolution check at the
\* end of a tick, by one, to a body of the next class under the same id; an
\* agent of stage 3 keeps its stage, and one of stage 2 changes only with
\* energy > 90, age > 20 and a colony of three or more (the energy after
\* the environment update of the same tick is at most the one before it).
C31_StageChangesOnlyByEvolution ==
    [][\A k \in 1..Len(world.cells) :
          LET b == world.cells[k]
              a == world'.cells[k]
          IN /\ a.id = b.id
             /\ a.stage # b.stage =>
                   /\ step.pc = "resolve" /\ step'.pc = "idle"
                   /\ world'.turn % evolution_interval = 0
                   /\ a.stage = b.stage + 1 /\ b.stage < 3
                   /\ a.cls = (IF a.stage = 2 THEN "Multicellular" ELSE "Organism")
                   /\ a.energy <= b.energy - evolve_cost
                   /\ b.stage = 2 =>
                         b.energy > 90 /\ b.age >= 20 /\ ColonySize(world, b) >= 3]_vars

C33_ColoniesHaveOneMember ==
    /\ [](\A n \in 1..Len(world.cells) :
             world.cells[n].cls = "Multicellular" =>
                /\ ColonySize(world, world.cells[n]) = 1
                /\ ~CanEvolve(world, world.cells[n]))
    /\ [][\A n \in 1..Len(world.cells) :
             world.cells[n].stage = 2 => world'.cells[n].cls = world.cells[n].cls]_vars

\* After an evolution check two Multicellulars live side by side, one of
\* them old and fed enough to evolve but for its colony.
C33_Witness ==
    /\ obs.ev.kind = "evolve"
    /\ \E n, k \in 1..Len(world.cells) :
          /\ n # k
          /\ world.cells[n].cls = "Multicellular" /\ world.cells[k].cls = "Multicellular"
          /\ world.cells[n].alive /\ world.cells[k].alive
          /\ world.cells[n].energy > 90 /\ world.cells[n].age > 20

\* C34: the attempt number of a game never exceeds max_attempts, however
\* many prompt updates arrive while the game waits after an extinction.
C34_AttemptsStayWithinMax ==
    game.attempt_number <= max_attempts

\* C35: when the living agents stood on pairwise distinct grid cells at the
\* start of a tick, the living agents (offspring and new predators
\* included) stand on pairwise distinct grid cells at its end.
C35_LivingAgentsOnDistinctCells ==
    [][(/\ step.pc = "resolve" /\ step'.pc = "idle"
        /\ \A a, b \in DOMAIN obs.pos0 : a # b => obs.pos0[a] # obs.pos0[b])
       => \A n, k \in 1..Len(world'.cells) :
             (n # k /\ world'.cells[n].alive /\ world'.cells[k].alive)
                => <<world'.cells[n].x, world'.cells[n].y>>
                      # <<world'.cells[k].x, world'.cells[k].y>>]_vars

\* C36: every action handed to update_cells has a type one of its branches
\* handles, and no iteration of its loop leaves a decided action undone.
HandledActions ==
    {"move", "eat", "flee", "attack", "reproduce", "signal", "claim", "cooperate",
     "migrate"}
C36_EveryDecidedActionIsHandled ==
    /\ step.pc = "resolve" =>
          \A id \in DOMAIN step.actions : step.actions[id].action \in HandledActions
    /\ obs.ev.kind # "unhandled"

\* C37: an eat that changes the eater's energy takes a resource within
\* Chebyshev distance 1 of the eater's position at that moment, also when
\* the action names the resource by its id.
C37_EatOnlyWithinReach ==
    [][(/\ step.pc = "resolve" /\ step.k <= Len(world.cells)
        /\ obs'.ev.kind = "eat" /\ obs'.ev.amount # 0
        /\ obs'.ev.actor = world.cells[step.k].id)
       => LET c == world.cells[step.k]
              n == FirstWithId(world.food, obs'.ev.other)
          IN /\ n # 0
             /\ Abs(world.food[n].x - c.x) <= 1 /\ Abs(world.food[n].y - c.y) <= 1]_vars

\* C38: an agent that lived at the start of the tick and lost all its
\* energy before its own turn in the population list does nothing in that
\* turn: the world after its turn is the world before it, so it keeps its
\* place and its age, takes no resource, hits nobody and has no offspring.
C38_TheDeadTakeNoTurn ==
    [][(/\ step.pc = "resolve" /\ step.k <= Len(world.cells)
        /\ world.cells[step.k].id \in DOMAIN obs.pos0
        /\ obs.energy0[world.cells[step.k].id] > 0
        /\ world.cells[step.k].energy <= 0)
       => /\ world' = world
          /\ <<world.cells[step.k].x, world.cells[step.k].y>>
                = obs.pos0[world.cells[step.k].id]]_vars

\* An agent that had an action for the tick was killed before its turn, and
\* its turn has passed.
C38_Witness ==
    /\ step.pc = "resolve" /\ obs.ev.kind = "dead"
    /\ obs.ev.actor \in DOMAIN obs.pos0
    /\ obs.ev.actor \in DOMAIN step.actions
    /\ step.actions[obs.ev.actor].action \in {"move", "attack", "flee", "eat"}
    /\ \E n \in 1..Len(world.cells) :
          /\ world.cells[n].id = obs.ev.actor /\ ~world.cells[n].alive
          /\ <<world.cells[n].x, world.cells[n].y>> = obs.pos0[obs.ev.actor]
          /\ step.k = n + 1

---------------------------------------------------------------------------
(* Specification SpecEvolve: check_and_evolve_all applied to worlds of two *)
(* creatures of every stage, age and energy around the thresholds.         *)

EvoEnergies == {50, 80, 81, 85, 100}
EvoAges == {10, 11, 21}
EvoBodies == {<<"Cell", 1>>, <<"Cell", 2>>, <<"Multicellular", 2>>}

EvoCreature(creature_id, body, energy, age, alive) ==
    [NewCreature(body[1], creature_id, Traits("blue", 3, "omnivore", NoVariation),
                 creature_id, 1, 1, NoParts)
     EXCEPT !.stage = body[2], !.energy = energy, !.age = age, !.alive = alive]

EvoInit ==
    /\ ix = IdxIdle /\ cb = CbIdle /\ game = GameIdle
    /\ env = EnvIdle /\ step = StepIdle /\ llm = LlmIdle /\ obs = ObsIdle
    /\ \E e1 \in EvoEnergies, a1 \in EvoAges, alive \in BOOLEAN,
          body \in EvoBodies, e2 \in EvoEnergies, a2 \in EvoAges :
          world = MakeWorld(<<EvoCreature(1, <<"Cell", 1>>, e1, a1, alive),
                              EvoCreature(2, body, e2, a2, TRUE)>>, <<>>, 5)

\* StageManager.check_and_evolve_all(world)
EvoCheck ==
    /\ obs.ev = NoEv
    /\ world' \in CheckAndEvolveAll(world)
    /\ obs' = [obs EXCEPT !.ev = Ev("evolve", 0, 0, 0, 0), !.before = world.cells]
    /\ UNCHANGED <<ix, cb, game, env, step, llm>>

EvoNext == EvoCheck

SpecEvolve == EvoInit /\ [][EvoNext]_vars

---------------------------------------------------------------------------
(* Specification SpecCombat: calculate_damage, apply_defense and           *)
(* resolve_combat applied to every attacker and a range of defenders.      *)

\* (class, stage) pairs a creature can have: server.py sets the stage of
\* Cell objects without changing their class.
Bodies == {<<"Cell", 1>>, <<"Cell", 2>>, <<"Cell", 3>>, <<"Multicellular", 2>>,
           <<"Organism", 3>>}
Mouths == {"sharp", "grinding", "versatile"}
Defenses == {"armor", "spikes", "camouflage", "none"}
CbDefenderEnergies == {1, 30, 100}

CbCreature(creature_id, player_id, body, energy, speed2, diet, mouth, defense) ==
    [NewCreature(body[1], creature_id, Traits("blue", 3, diet, NoVariation),
                 0, creature_id - 1, player_id,
                 IF body[1] = "Organism"
                 THEN [mouth |-> mouth, limbs |-> 3, sensors |-> 2, defense |-> defense]
                 ELSE NoParts)
     EXCEPT !.stage = body[2], !.energy = energy, !.speed2 = speed2]

CbInit ==
    /\ ix = IdxIdle /\ game = GameIdle
    /\ world = WorldIdle /\ env = EnvIdle /\ step = StepIdle /\ llm = LlmIdle
    /\ obs = ObsIdle
    /\ \E body \in Bodies, energy \in 0..MaxEnergy, speed2 \in 1..10, diet \in Diets,
          mouth \in Mouths :
          /\ (body[1] # "Organism" => mouth = "sharp")
          /\ cb = [CbIdle EXCEPT
                     !.att = CbCreature(1, NoPlayer, body, energy, speed2, diet, mouth, "none")]

CbAttack ==
    /\ ~cb.done
    /\ \E body \in Bodies, energy \in CbDefenderEnergies, defense \in Defenses :
          /\ (body[1] # "Organism" => defense = "none")
          /\ LET def == CbCreature(2, 1, body, energy, 6, "herbivore", "grinding", defense)
                 raw == CalculateDamage(cb.att, def)
                 r == ResolveCombat(cb.att, def)
             IN cb' = [att |-> r.attacker, def |-> r.defender, raw |-> raw,
                       final |-> r.damage, done |-> TRUE, before |-> def.energy,
                       att0 |-> cb.att.energy, gained |-> r.energy_gained]
    /\ UNCHANGED <<ix, game, world, env, step, llm, obs>>

CbNext == CbAttack

SpecCombat == CbInit /\ [][CbNext]_vars

\* C9: calculate_damage and apply_defense return at least 1, so a resolved
\* attack lowers the defender's energy by at least 1, or to 0.
C9_DamageAtLeastOne ==
    cb.done =>
        /\ cb.raw >= 1
        /\ cb.final >= 1
        /\ (cb.def.energy <= cb.before - 1 \/ cb.def.energy = 0)
        /\ cb.def.energy = Max(0, cb.before - cb.final)

\* A slow, starved herbivore cell (the weakest attacker) hits an armoured
\* organism and still takes energy from it.
C9_Witness ==
    /\ cb.done
    /\ cb.att.stage = 1 /\ cb.att.speed2 = 1 /\ cb.att.diet = "herbivore"
    /\ cb.def.parts.defense = "armor"
    /\ cb.raw = 11 /\ cb.final = 5
    /\ cb.def.energy = cb.before - 5

\* C20: resolve_combat returns as the attacker's gain
\* min(50, 15 * stage + (E + D) div 5) when a carnivore kills a defender of
\* that stage that had energy E with damage D, and 0 for any other attacker
\* and for an attack that does not kill; the attacker's energy stays at 100
\* or below.
C20_PredationGain ==
    cb.done =>
        /\ cb.gained = IF ~cb.def.alive /\ cb.att.diet = "carnivore"
                       THEN Min(50, 15 * cb.def.stage + (cb.before + cb.final) \div 5)
                       ELSE 0
        /\ cb.att.energy <= MaxEnergy

---------------------------------------------------------------------------
(* Specification SpecIndex: an index filled by add_object / remove_object  *)
(* and queried by get_nearby.                                              *)

IdxMaxObjs == 2
IdxMaxRadius == 6
IdxXs == {4, 5, 10}
IdxYs == {4, 5}
IdxObjYs == {4}
IdxTypes == {"creature", "food"}


IdxInit ==
    /\ ix = IdxIdle /\ cb = CbIdle /\ game = GameIdle
    /\ world = WorldIdle /\ env = EnvIdle /\ step = StepIdle /\ llm = LlmIdle
    /\ obs = ObsIdle

\* World.add_cell / spawn_resources give every object a fresh id.
IdxAdd ==
    /\ ~ix.done
    /\ ix.next <= IdxMaxObjs
    /\ \E x \in IdxXs, y \in IdxObjYs, t \in IdxTypes :
          ix' = [ix EXCEPT !.grid = AddObject(@, ix.next, x, y, t),
                           !.next = @ + 1]
    /\ UNCHANGED <<cb, game, world, env, step, llm, obs>>

IdxRemove ==
    /\ ~ix.done
    /\ \E e \in IndexEntries(ix.grid) :
          ix' = [ix EXCEPT !.grid = RemoveObject(@, e.id, e.x, e.y)]
    /\ UNCHANGED <<cb, game, world, env, step, llm, obs>>

IdxQuery ==
    /\ ~ix.done
    /\ \E x \in IdxXs, y \in IdxYs, r \in 0..IdxMaxRadius,
          t \in IdxTypes \cup {"any"} :
          ix' = [ix EXCEPT !.q = <<x, y, r, t>>,
                           !.out = GetNearbyIndex(ix.grid, x, y, r, t),
                           !.done = TRUE]
    /\ UNCHANGED <<cb, game, world, env, step, llm, obs>>

IdxNext == IdxAdd \/ IdxRemove \/ IdxQuery

SpecIndex == IdxInit /\ [][IdxNext]_vars

\* The brute-force scan over every indexed entity.
BruteForceIds(grid, x, y, radius, obj_type) ==
    {e.id : e \in {f \in IndexEntries(grid) :
                      /\ (obj_type = "any" \/ f.type = obj_type)
                      /\ Dist2(f.x, f.y, x, y) <= radius * radius}}

\* C2: get_nearby returns exactly the ids a brute-force scan over all
\* indexed entities finds within the radius (of the asked kind), each once.
C2_IndexEqualsBruteForce ==
    ix.done =>
        /\ SeqIds(ix.out) = BruteForceIds(ix.grid, ix.q[1], ix.q[2], ix.q[3], ix.q[4])
        /\ Cardinality(SeqIds(ix.out)) = Len(ix.out)
        /\ \A i \in 1..Len(ix.out) :
              ix.out[i].d2 = Dist2(ix.out[i].x, ix.out[i].y, ix.q[1], ix.q[2])

\* An object that lies in another bucket than the query point, within the
\* radius, is returned.
C2_Witness ==
    /\ ix.done
    /\ \E i \in 1..Len(ix.out) :
          GetGridCoords(ix.out[i].x, ix.out[i].y) # GetGridCoords(ix.q[1], ix.q[2])
    /\ Cardinality(IndexEntries(ix.grid)) = 2
    /\ Len(ix.out) = 1

---------------------------------------------------------------------------
(* Specification SpecDisaster: Environment.update, update after update,    *)
(* from the turns before a disaster is due until after it has run out. The *)
(* game loop calls step, and with it the update, again and again.          *)

MaxUpdates == 5

DisInit ==
    /\ ix = IdxIdle /\ cb = CbIdle /\ game = GameIdle
    /\ step = StepIdle /\ llm = LlmIdle /\ obs = ObsIdle
    /\ \E e1 \in {12, 60}, e2 \in {3, 60},
          turn \in {disaster_interval - 2, disaster_interval - 1} :
          /\ world = MakeWorld(<<Creature("Cell", 1, 1, 2, 2, e1, 1, 3, "herbivore"),
                                 Creature("Cell", 2, 1, 6, 2, e2, 1, 3, "herbivore")>>,
                               <<Food(1000, 6, 5, "apple", 30)>>, turn)
          /\ env = MakeEnv(turn, "clear")

\* Environment.update()
DisUpdate ==
    /\ env.turn_counter < disaster_interval + MaxUpdates
    /\ \E st \in EnvironmentUpdate(world, env) :
          world' = st.w /\ env' = st.env
    /\ UNCHANGED <<ix, cb, game, step, llm, obs>>

DisNext == DisUpdate

SpecDisaster == DisInit /\ [][DisNext]_vars /\ WF_vars(DisUpdate)

\* Every disaster an update can trigger when the timer runs out.
AllDisasters ==
    {Disaster("earthquake", q[1], q[2], r, t, disaster_interval) :
        q \in DisasterSites, r \in EarthquakeRadii, t \in EarthquakeDurations}
    \cup {Disaster("flood", q[1], q[2], r, t, disaster_interval) :
             q \in DisasterSites, r \in FloodRadii, t \in FloodDurations}

\* The disaster d, triggered at d.turn, is in its duration at the update
\* with counter tc.
InDuration(d, tc) == tc - d.turn \in 0..(d.duration - 1)

\* C29: a disaster triggered at the update with counter T, with duration d,
\* is in the active list after the updates T .. T + d - 1 and leaves it at
\* the update T + d; an update changes the energy of an agent only when the
\* agent is within a disaster in its duration, which then takes its ongoing
\* damage (2 for an earthquake, 3 for a flood, not below 0); and every
\* disaster in the active list leaves it at some later update.
C29_EveryDisasterExpires ==
    /\ [][LET tc == env'.turn_counter
              old == Range(env.active_disasters)
              new == Range(env'.active_disasters)
          IN /\ \A d \in old : d \in new <=> InDuration(d, tc)
             /\ \A d \in old : tc <= d.turn + d.duration
             /\ \A d \in new \ old : d.turn = tc
             /\ \A k \in 1..Len(world.cells) :
                   LET c == world.cells[k]
                   IN /\ world'.cells[k].energy # c.energy =>
                            \E d \in old \cup new : InDuration(d, tc) /\ Within(c, d)
                      /\ \A d \in old :
                            (c.alive /\ InDuration(d, tc) /\ Within(c, d)) =>
                               world'.cells[k].energy =
                                  Max(0, c.energy - (IF d.type = "earthquake" THEN 2 ELSE 3))
         ]_vars
    /\ \A d \in AllDisasters :
          (d \in Range(env.active_disasters)) ~> (d \notin Range(env.active_disasters))

\* The earthquake of radius 3 around (1, 1), triggered at update 50 for 3
\* updates, has left the list at update 53; the agent at (2, 2) has lost 7
\* at once and 2 at each of the updates 50, 51 and 52.
C29_Witness ==
    /\ env.turn_counter = disaster_interval + 3
    /\ env.disaster_timer = 3
    /\ env.active_disasters = <<>>
    /\ world.cells[1].alive /\ world.cells[1].energy = 47
    /\ world.cells[2].energy = 60

====
